---- MODULE Spec2Model ----
(***************************************************************************)
(* Model of sync.py, the ProKnow identity-and-access synchronizer.         *)
(*                                                                         *)
(* The script is one sequential program.  It reads the desired workspaces, *)
(* reconciles them with the remote system, reads the role templates and    *)
(* the user workbooks, compiles one role per user group, reconciles the    *)
(* roles, and finally reconciles the users.  The remote system (the        *)
(* ProKnow API behind `pk`) is the environment: it keeps three collections *)
(* of records and hands out identifiers.                                   *)
(*                                                                         *)
(* Representation of Python values                                         *)
(*   str          a sequence of one-character strings                      *)
(*   cell value   [t |-> "none" | "str" | "bool" | "num", v |-> str]       *)
(*   dict         a sequence of records in insertion order, unique keys    *)
(*   x or None    <<>> for None, <<x>> for a value                         *)
(***************************************************************************)
EXTENDS Integers, Sequences, FiniteSets, TLC

----------------------------------------------------------------------------
(* Bounds of the model *)

\* number of times the script is run against the same remote system
MaxRuns == 2

\* the remote system gives a new workspace one of its MaxFreshIds smallest
\* unused identifiers
MaxFreshIds == 2

----------------------------------------------------------------------------
(* Python string operations *)

\* the capital letters among the characters of code 0 to 255
UpperCase ==
    <<"A","B","C","D","E","F","G","H","I","J","K","L","M",
      "N","O","P","Q","R","S","T","U","V","W","X","Y","Z",
      "À","Á","Â","Ã","Ä","Å","Æ","Ç","È","É","Ê","Ë","Ì","Í","Î",
      "Ï","Ð","Ñ","Ò","Ó","Ô","Õ","Ö","Ø","Ù","Ú","Û","Ü","Ý","Þ">>

\* their small letters, in the same order
LowerCase ==
    <<"a","b","c","d","e","f","g","h","i","j","k","l","m",
      "n","o","p","q","r","s","t","u","v","w","x","y","z",
      "à","á","â","ã","ä","å","æ","ç","è","é","ê","ë","ì","í","î",
      "ï","ð","ñ","ò","ó","ô","õ","ö","ø","ù","ú","û","ü","ý","þ">>

\* the characters str.strip() removes (those str.isspace() holds of), among
\* the characters a string of this module can hold, the codes 0 to 255:
\* space, \t, \n, \r, \f, the vertical tab (11), the separators 28 to 31,
\* the next line character (133) and the no-break space (160).  The white
\* space of higher codes (U+1680, U+2000 to U+200A, U+2028, U+2029, U+202F,
\* U+205F, U+3000) is outside that alphabet.
Whitespace ==
    {" ", "\t", "\n", "\r", "\f", "", "", "", "", "",
     "", " "}

\* str.lower() on one character.  A string of this module holds the
\* characters of code 0 to 255; the three characters of a higher code that
\* str.upper() makes of them are written by their code point: "U+0178"
\* (capital y with diaeresis), "U+039C" (Greek capital mu) and "U+03BC"
\* (Greek small mu).
CharLower(c) ==
    IF \E k \in 1..Len(UpperCase) : UpperCase[k] = c
    THEN LowerCase[CHOOSE k \in 1..Len(UpperCase) : UpperCase[k] = c]
    ELSE IF c = "U+0178" THEN "ÿ"
    ELSE IF c = "U+039C" THEN "U+03BC"
    ELSE c

\* str.upper() on one character: a string, since the sharp s becomes SS
CharUpper(c) ==
    IF \E k \in 1..Len(LowerCase) : LowerCase[k] = c
    THEN <<UpperCase[CHOOSE k \in 1..Len(LowerCase) : LowerCase[k] = c]>>
    ELSE IF c = "ß" THEN <<"S", "S">>
    ELSE IF c = "ÿ" THEN <<"U+0178">>
    ELSE IF c = "µ" \/ c = "U+03BC" THEN <<"U+039C">>
    ELSE <<c>>

\* str.lower()
Lower(s) == [k \in 1..Len(s) |-> CharLower(s[k])]

\* str.upper()
RECURSIVE Upper(_)
Upper(s) == IF s = <<>> THEN <<>> ELSE CharUpper(s[1]) \o Upper(Tail(s))

\* str.strip()
Strip(s) ==
    LET keep == {k \in 1..Len(s) : s[k] \notin Whitespace}
    IN  IF keep = {} THEN <<>>
        ELSE LET lo == CHOOSE k \in keep : \A m \in keep : k <= m
                 hi == CHOOSE k \in keep : \A m \in keep : m <= k
             IN  SubSeq(s, lo, hi)

\* sep.join(parts)
RECURSIVE Join(_, _)
Join(sep, parts) ==
    IF parts = <<>> THEN <<>>
    ELSE IF Len(parts) = 1 THEN parts[1]
    ELSE parts[1] \o sep \o Join(sep, Tail(parts))

----------------------------------------------------------------------------
(* Python cell values *)

NoneCell == [t |-> "none", v |-> <<>>]

Str(s) == [t |-> "str", v |-> s]

Bool(b) == [t |-> "bool", v |-> IF b THEN <<"T","r","u","e">> ELSE <<"F","a","l","s","e">>]

Num(digits) == [t |-> "num", v |-> digits]

\* Python truthiness of a cell value
Truthy(c) ==
    CASE c.t = "none" -> FALSE
      [] c.t = "str"  -> c.v # <<>>
      [] c.t = "bool" -> c.v = <<"T","r","u","e">>
      [] c.t = "num"  -> c.v # <<"0">>

----------------------------------------------------------------------------
(* Python dicts: sequences of records, keyed by the field named f *)

Range(s) == {s[k] : k \in 1..Len(s)}

Keys(d, f) == {d[k][f] : k \in 1..Len(d)}

Has(d, f, key) == \E k \in 1..Len(d) : d[k][f] = key

IndexOf(d, f, key) == CHOOSE k \in 1..Len(d) : d[k][f] = key

Get(d, f, key) == d[IndexOf(d, f, key)]

\* a dict that keeps the first record stored under a key
PutOnce(d, f, rec) == IF Has(d, f, rec[f]) THEN d ELSE Append(d, rec)

\* d[key] = rec: a present key keeps its position, a new key goes last
Put(d, f, rec) ==
    IF Has(d, f, rec[f])
    THEN [d EXCEPT ![IndexOf(d, f, rec[f])] = rec]
    ELSE Append(d, rec)

----------------------------------------------------------------------------
(* Static role permission lookup *)

role_permission_lookup ==
    <<
       [category |-> <<"A","d","v","a","n","c","e","d"," ","U","s","e","r"," ","P","e","r","m","i","s","s","i","o","n","s">>,
        label |-> <<"C","r","e","a","t","e"," ","A","P","I"," ","K","e","y","s">>,
        path |-> <<"organization", "create_api_keys">>],
       [category |-> <<"O","r","g","a","n","i","z","a","t","i","o","n"," ","M","a","n","a","g","e","m","e","n","t"," ","P","e","r","m","i","s","s","i","o","n","s">>,
        label |-> <<"M","a","n","a","g","e"," ","U","s","e","r","s",","," ","R","o","l","e","s",","," ","a","n","d"," ","W","o","r","k","s","p","a","c","e","s">>,
        path |-> <<"organization", "manage_access">>],
       [category |-> <<"O","r","g","a","n","i","z","a","t","i","o","n"," ","M","a","n","a","g","e","m","e","n","t"," ","P","e","r","m","i","s","s","i","o","n","s">>,
        label |-> <<"M","a","n","a","g","e"," ","C","u","s","t","o","m"," ","M","e","t","r","i","c","s">>,
        path |-> <<"organization", "manage_custom_metrics">>],
       [category |-> <<"O","r","g","a","n","i","z","a","t","i","o","n"," ","M","a","n","a","g","e","m","e","n","t"," ","P","e","r","m","i","s","s","i","o","n","s">>,
        label |-> <<"M","a","n","a","g","e"," ","R","e","n","a","m","i","n","g"," ","R","u","l","e","s">>,
        path |-> <<"organization", "manage_template_metric_sets">>],
       [category |-> <<"O","r","g","a","n","i","z","a","t","i","o","n"," ","M","a","n","a","g","e","m","e","n","t"," ","P","e","r","m","i","s","s","i","o","n","s">>,
        label |-> <<"M","a","n","a","g","e"," ","S","c","o","r","e","c","a","r","d"," ","T","e","m","p","l","a","t","e","s">>,
        path |-> <<"organization", "manage_renaming_rules">>],
       [category |-> <<"O","r","g","a","n","i","z","a","t","i","o","n"," ","M","a","n","a","g","e","m","e","n","t"," ","P","e","r","m","i","s","s","i","o","n","s">>,
        label |-> <<"M","a","n","a","g","e"," ","C","h","e","c","k","l","i","s","t"," ","T","e","m","p","l","a","t","e","s">>,
        path |-> <<"organization", "manage_template_checklists">>],
       [category |-> <<"O","r","g","a","n","i","z","a","t","i","o","n"," ","M","a","n","a","g","e","m","e","n","t"," ","P","e","r","m","i","s","s","i","o","n","s">>,
        label |-> <<"M","a","n","a","g","e"," ","S","t","r","u","c","t","u","r","e"," ","S","e","t"," ","T","e","m","p","l","a","t","e","s">>,
        path |-> <<"organization", "manage_template_structure_sets">>],
       [category |-> <<"O","r","g","a","n","i","z","a","t","i","o","n"," ","M","a","n","a","g","e","m","e","n","t"," ","P","e","r","m","i","s","s","i","o","n","s">>,
        label |-> <<"M","a","n","a","g","e"," ","W","o","r","k","s","p","a","c","e"," ","A","l","g","o","r","i","t","h","m","s">>,
        path |-> <<"organization", "manage_workspace_algorithms">>],
       [category |-> <<"A","l","l"," ","W","o","r","k","s","p","a","c","e","s">>,
        label |-> <<"R","e","a","d"," ","P","a","t","i","e","n","t","s">>,
        path |-> <<"organization", "organization_read_patients">>],
       [category |-> <<"A","l","l"," ","W","o","r","k","s","p","a","c","e","s">>,
        label |-> <<"M","a","n","a","g","e"," ","P","a","t","i","e","n","t"," ","A","c","c","e","s","s">>,
        path |-> <<"organization", "organization_manage_access_patients">>],
       [category |-> <<"A","l","l"," ","W","o","r","k","s","p","a","c","e","s">>,
        label |-> <<"V","i","e","w"," ","P","H","I">>,
        path |-> <<"organization", "organization_view_phi">>],
       [category |-> <<"A","l","l"," ","W","o","r","k","s","p","a","c","e","s">>,
        label |-> <<"D","o","w","n","l","o","a","d"," ","D","I","C","O","M">>,
        path |-> <<"organization", "organization_download_dicom">>],
       [category |-> <<"A","l","l"," ","W","o","r","k","s","p","a","c","e","s">>,
        label |-> <<"U","p","l","o","a","d"," ","D","I","C","O","M">>,
        path |-> <<"organization", "organization_upload_dicom">>],
       [category |-> <<"A","l","l"," ","W","o","r","k","s","p","a","c","e","s">>,
        label |-> <<"W","r","i","t","e"," ","P","a","t","i","e","n","t","s">>,
        path |-> <<"organization", "organization_write_patients">>],
       [category |-> <<"A","l","l"," ","W","o","r","k","s","p","a","c","e","s">>,
        label |-> <<"C","o","n","t","o","u","r"," ","P","a","t","i","e","n","t","s">>,
        path |-> <<"organization", "organization_contour_patients">>],
       [category |-> <<"A","l","l"," ","W","o","r","k","s","p","a","c","e","s">>,
        label |-> <<"D","e","l","e","t","e"," ","P","a","t","i","e","n","t","s">>,
        path |-> <<"organization", "organization_delete_patients">>],
       [category |-> <<"A","l","l"," ","W","o","r","k","s","p","a","c","e","s">>,
        label |-> <<"R","e","a","d"," ","C","o","l","l","e","c","t","i","o","n","s">>,
        path |-> <<"organization", "organization_read_collections">>],
       [category |-> <<"A","l","l"," ","W","o","r","k","s","p","a","c","e","s">>,
        label |-> <<"W","r","i","t","e"," ","C","o","l","l","e","c","t","i","o","n","s">>,
        path |-> <<"organization", "organization_write_collections">>],
       [category |-> <<"A","l","l"," ","W","o","r","k","s","p","a","c","e","s">>,
        label |-> <<"D","e","l","e","t","e"," ","C","o","l","l","e","c","t","i","o","n","s">>,
        path |-> <<"organization", "organization_delete_collections">>],
       [category |-> <<"A","l","l"," ","W","o","r","k","s","p","a","c","e","s">>,
        label |-> <<"C","o","l","l","a","b","o","r","a","t","o","r">>,
        path |-> <<"organization", "organization_collaborator">>],
       [category |-> <<"P","r","i","m","a","r","y"," ","W","o","r","k","s","p","a","c","e","s">>,
        label |-> <<"R","e","a","d"," ","P","a","t","i","e","n","t","s">>,
        path |-> <<"primary_workspaces", "read_patients">>],
       [category |-> <<"P","r","i","m","a","r","y"," ","W","o","r","k","s","p","a","c","e","s">>,
        label |-> <<"M","a","n","a","g","e"," ","P","a","t","i","e","n","t"," ","A","c","c","e","s","s">>,
        path |-> <<"primary_workspaces", "manage_access_patients">>],
       [category |-> <<"P","r","i","m","a","r","y"," ","W","o","r","k","s","p","a","c","e","s">>,
        label |-> <<"V","i","e","w"," ","P","H","I">>,
        path |-> <<"primary_workspaces", "view_phi">>],
       [category |-> <<"P","r","i","m","a","r","y"," ","W","o","r","k","s","p","a","c","e","s">>,
        label |-> <<"D","o","w","n","l","o","a","d"," ","D","I","C","O","M">>,
        path |-> <<"primary_workspaces", "download_dicom">>],
       [category |-> <<"P","r","i","m","a","r","y"," ","W","o","r","k","s","p","a","c","e","s">>,
        label |-> <<"U","p","l","o","a","d"," ","D","I","C","O","M">>,
        path |-> <<"primary_workspaces", "upload_dicom">>],
       [category |-> <<"P","r","i","m","a","r","y"," ","W","o","r","k","s","p","a","c","e","s">>,
        label |-> <<"W","r","i","t","e"," ","P","a","t","i","e","n","t","s">>,
        path |-> <<"primary_workspaces", "write_patients">>],
       [category |-> <<"P","r","i","m","a","r","y"," ","W","o","r","k","s","p","a","c","e","s">>,
        label |-> <<"C","o","n","t","o","u","r"," ","P","a","t","i","e","n","t","s">>,
        path |-> <<"primary_workspaces", "contour_patients">>],
       [category |-> <<"P","r","i","m","a","r","y"," ","W","o","r","k","s","p","a","c","e","s">>,
        label |-> <<"D","e","l","e","t","e"," ","P","a","t","i","e","n","t","s">>,
        path |-> <<"primary_workspaces", "delete_patients">>],
       [category |-> <<"P","r","i","m","a","r","y"," ","W","o","r","k","s","p","a","c","e","s">>,
        label |-> <<"R","e","a","d"," ","C","o","l","l","e","c","t","i","o","n","s">>,
        path |-> <<"primary_workspaces", "read_collections">>],
       [category |-> <<"P","r","i","m","a","r","y"," ","W","o","r","k","s","p","a","c","e","s">>,
        label |-> <<"W","r","i","t","e"," ","C","o","l","l","e","c","t","i","o","n","s">>,
        path |-> <<"primary_workspaces", "write_collections">>],
       [category |-> <<"P","r","i","m","a","r","y"," ","W","o","r","k","s","p","a","c","e","s">>,
        label |-> <<"D","e","l","e","t","e"," ","C","o","l","l","e","c","t","i","o","n","s">>,
        path |-> <<"primary_workspaces", "delete_collections">>],
       [category |-> <<"P","r","i","m","a","r","y"," ","W","o","r","k","s","p","a","c","e","s">>,
        label |-> <<"C","o","l","l","a","b","o","r","a","t","o","r">>,
        path |-> <<"primary_workspaces", "collaborator">>],
       [category |-> <<"O","t","h","e","r"," ","W","o","r","k","s","p","a","c","e","s">>,
        label |-> <<"R","e","a","d"," ","P","a","t","i","e","n","t","s">>,
        path |-> <<"other_workspaces", "read_patients">>],
       [category |-> <<"O","t","h","e","r"," ","W","o","r","k","s","p","a","c","e","s">>,
        label |-> <<"M","a","n","a","g","e"," ","P","a","t","i","e","n","t"," ","A","c","c","e","s","s">>,
        path |-> <<"other_workspaces", "manage_access_patients">>],
       [category |-> <<"O","t","h","e","r"," ","W","o","r","k","s","p","a","c","e","s">>,
        label |-> <<"V","i","e","w"," ","P","H","I">>,
        path |-> <<"other_workspaces", "view_phi">>],
       [category |-> <<"O","t","h","e","r"," ","W","o","r","k","s","p","a","c","e","s">>,
        label |-> <<"D","o","w","n","l","o","a","d"," ","D","I","C","O","M">>,
        path |-> <<"other_workspaces", "download_dicom">>],
       [category |-> <<"O","t","h","e","r"," ","W","o","r","k","s","p","a","c","e","s">>,
        label |-> <<"U","p","l","o","a","d"," ","D","I","C","O","M">>,
        path |-> <<"other_workspaces", "upload_dicom">>],
       [category |-> <<"O","t","h","e","r"," ","W","o","r","k","s","p","a","c","e","s">>,
        label |-> <<"W","r","i","t","e"," ","P","a","t","i","e","n","t","s">>,
        path |-> <<"other_workspaces", "write_patients">>],
       [category |-> <<"O","t","h","e","r"," ","W","o","r","k","s","p","a","c","e","s">>,
        label |-> <<"C","o","n","t","o","u","r"," ","P","a","t","i","e","n","t","s">>,
        path |-> <<"other_workspaces", "contour_patients">>],
       [category |-> <<"O","t","h","e","r"," ","W","o","r","k","s","p","a","c","e","s">>,
        label |-> <<"D","e","l","e","t","e"," ","P","a","t","i","e","n","t","s">>,
        path |-> <<"other_workspaces", "delete_patients">>],
       [category |-> <<"O","t","h","e","r"," ","W","o","r","k","s","p","a","c","e","s">>,
        label |-> <<"R","e","a","d"," ","C","o","l","l","e","c","t","i","o","n","s">>,
        path |-> <<"other_workspaces", "read_collections">>],
       [category |-> <<"O","t","h","e","r"," ","W","o","r","k","s","p","a","c","e","s">>,
        label |-> <<"W","r","i","t","e"," ","C","o","l","l","e","c","t","i","o","n","s">>,
        path |-> <<"other_workspaces", "write_collections">>],
       [category |-> <<"O","t","h","e","r"," ","W","o","r","k","s","p","a","c","e","s">>,
        label |-> <<"D","e","l","e","t","e"," ","C","o","l","l","e","c","t","i","o","n","s">>,
        path |-> <<"other_workspaces", "delete_collections">>],
       [category |-> <<"O","t","h","e","r"," ","W","o","r","k","s","p","a","c","e","s">>,
        label |-> <<"C","o","l","l","a","b","o","r","a","t","o","r">>,
        path |-> <<"other_workspaces", "collaborator">>]
    >>

----------------------------------------------------------------------------
(* Command line arguments (the defaults of the argument parser) *)

args_workspace_slug_column == <<"S","l","u","g">>

args_workspace_name_column == <<"N","a","m","e">>

args_user_workspace_column == <<"W","o","r","k","s","p","a","c","e">>

args_user_name_column == <<"N","a","m","e">>

args_user_email_column == <<"E","m","a","i","l">>

args_user_role_column == <<"R","o","l","e">>

args_user_active_column == <<"A","c","t","i","v","e">>

----------------------------------------------------------------------------
(* Utilities *)

\* What fail(skk, msg) reports: error names the message, detail the value
\* or field the message quotes, file the file named after "First assigned in"
Failure(error, detail, file) == [error |-> error, detail |-> detail, file |-> file]

NoFailure == Failure("", <<>>, <<>>)

\* An exception no handler catches: traceback, exit status 1
Exception(error) == Failure(error, <<>>, <<>>)

\* parse_bool(value): "True", "False" or "None"
parse_bool(value) ==
    CASE value.t = "bool" -> IF value.v = <<"T","r","u","e">> THEN "True" ELSE "False"
      [] value.t = "str"  ->
            LET x == Lower(value.v)
            IN  IF x = <<"t","r","u","e">> \/ x = <<"y","e","s">> THEN "True" ELSE "False"
      [] OTHER -> "None"

\* a prompt that takes every line that is not a refusal as the default
confirmUnlessRefused(input) ==
    IF Lower(input) \in {<<"n","o">>, <<"n">>} THEN "no" ELSE "yes"

\* confirm(question) with default "yes", on one line of input:
\* "yes", "no", or "again" when the prompt is repeated
confirm(input) ==
    LET choice == Lower(input)
    IN  IF choice = <<>> THEN "yes"
        ELSE IF choice \in {<<"y","e","s">>, <<"y">>, <<"y","e">>} THEN "yes"
        ELSE IF choice \in {<<"n","o">>, <<"n">>} THEN "no"
        ELSE "again"

\* The loop over the header cells of resolve_headers; index is the Python
\* (0-based) column index, options a dict of [key, head]
RECURSIVE ResolveColumns(_, _, _, _)
ResolveColumns(row, index, options, headers) ==
    IF index >= Len(row) THEN [failure |-> NoFailure, headers |-> headers]
    ELSE LET value == row[index + 1]
             v == Lower(Strip(value.v))
             hits == {k \in 1..Len(options) : options[k].head = v}
         IN  IF value.t = "str" /\ hits # {}
             THEN LET k == CHOOSE k \in hits : \A m \in hits : k <= m
                      key == options[k].key
                  IN  IF Has(headers, "key", key)
                      THEN [failure |-> Failure("Duplicate columns", v, <<>>),
                            headers |-> headers]
                      ELSE ResolveColumns(row, index + 1, options,
                               Put(headers, "key", [key |-> key, index |-> index]))
             ELSE ResolveColumns(row, index + 1, options, headers)

\* a resolver without the loop of lines 130-134
resolve_headersFound(row, options) == ResolveColumns(row, 0, options, <<>>)

\* resolve_headers(filename, ws, options), row the first row of ws
resolve_headers(row, options) ==
    LET found == ResolveColumns(row, 0, options, <<>>)
        missing == {k \in 1..Len(options) : ~Has(found.headers, "key", options[k].key)}
    IN  IF found.failure # NoFailure THEN found
        ELSE IF missing # {}
        THEN LET k == CHOOSE k \in missing : \A m \in missing : k <= m
             IN  [failure |-> Failure("Missing column", <<options[k].key>>, <<>>),
                  headers |-> found.headers]
        ELSE found

\* row[headers[key]]
Cell(row, headers, key) ==
    LET index == Get(headers, "key", key).index
    IN  IF index < Len(row) THEN row[index + 1] ELSE NoneCell

----------------------------------------------------------------------------
(* State *)

VARIABLES
    data,                \* the workbooks of the data directory
    pk_workspaces,       \* remote system: workspace records
    pk_roles,            \* remote system: role records
    pk_users,            \* remote system: user records
    requests,            \* remote create and save calls issued, in order
    run,                 \* which run of the script this is
    pc,                  \* position of the script
    cursor,              \* position of the loop the script is in
    exit_status,         \* -1 while running, then the exit status
    failure,             \* what the run reported when it failed
    answers,             \* the line last typed at each confirmation of this run
    workspaces,
    unknown_workspaces,
    workspace_jobs,
    role_templates,
    users,
    roles,
    unknown_roles,
    role_jobs,
    unknown_users,
    user_jobs,
    created,
    updated

vars ==
    <<data, pk_workspaces, pk_roles, pk_users, requests, run, pc, cursor,
      exit_status, failure, answers, workspaces, unknown_workspaces,
      workspace_jobs, role_templates, users, roles, unknown_roles, role_jobs,
      unknown_users, user_jobs, created, updated>>

remote == <<pk_workspaces, pk_roles, pk_users, requests>>

locals ==
    <<workspaces, unknown_workspaces, workspace_jobs, role_templates, users,
      roles, unknown_roles, role_jobs, unknown_users, user_jobs, created, updated>>

\* fail(skk, msg): report and sys.exit(1)
fail(f) ==
    /\ pc' = "exit"
    /\ exit_status' = 1
    /\ failure' = f

\* the script goes on to position p
goto(p) ==
    /\ pc' = p
    /\ UNCHANGED <<exit_status, failure>>

----------------------------------------------------------------------------
(* Workspaces *)

\* lines 163-173, from data row k on
RECURSIVE ReadWorkspaceRows(_, _, _, _)
ReadWorkspaceRows(rows, headers, k, acc) ==
    IF k > Len(rows) THEN [failure |-> NoFailure, workspaces |-> acc]
    ELSE LET s == Cell(rows[k], headers, "slug")
             n == Cell(rows[k], headers, "name")
         IN  IF Truthy(s) /\ Truthy(n)
             THEN IF s.t # "str" \/ n.t # "str"
                  THEN [failure |-> Exception("AttributeError"), workspaces |-> acc]
                  ELSE LET slug == Lower(Strip(s.v))
                           name == <<"[">> \o Upper(slug) \o <<"]", " ">> \o Strip(n.v)
                       IN  ReadWorkspaceRows(rows, headers, k + 1,
                               Put(acc, "slug",
                                   [slug |-> slug, name |-> name, item |-> <<>>]))
             ELSE ReadWorkspaceRows(rows, headers, k + 1, acc)

\* line 178: the remote workspace matches a desired one
WorkspaceMatches(workspace_item, ws) == Has(ws, "slug", workspace_item.slug)

\* lines 177-181, from remote record k on: [workspaces, unknown_workspaces]
RECURSIVE AssociateWorkspaces(_, _, _, _)
AssociateWorkspaces(items, k, ws, unknown) ==
    IF k > Len(items) THEN [workspaces |-> ws, unknown |-> unknown]
    ELSE IF WorkspaceMatches(items[k], ws)
    THEN AssociateWorkspaces(items, k + 1,
             [ws EXCEPT ![IndexOf(ws, "slug", items[k].slug)].item = <<items[k]>>],
             unknown)
    ELSE AssociateWorkspaces(items, k + 1, ws, Append(unknown, items[k]))

\* a workspace pass that compares the remote name with the desired slug
WorkspaceDiffersFromSlug(workspace) == workspace.item[1].name # workspace.slug

\* line 191: the remote workspace differs from the desired one
WorkspaceDiffers(workspace) == workspace.item[1].name # workspace.name

\* a workspace pass that makes every desired workspace a job
WorkspaceIsJobAlways(workspace) == TRUE

\* lines 188-194: does the workspace become a job
WorkspaceIsJob(workspace) ==
    IF workspace.item = <<>> THEN TRUE ELSE WorkspaceDiffers(workspace)

ReadWorkspaces ==
    /\ pc = "read_workspaces"
    /\ LET wb == data.workspaces
       IN  IF ~(\E k \in 1..Len(wb.sheetnames) :
                     wb.sheetnames[k] = <<"W","o","r","k","s","p","a","c","e","s">>)
           THEN /\ fail(Failure("Workbook must contain sheet", <<>>, <<>>))
                /\ UNCHANGED workspaces
           ELSE LET headers == resolve_headers(wb.rows[1],
                        <<[key |-> "slug", head |-> Lower(Strip(args_workspace_slug_column))],
                          [key |-> "name", head |-> Lower(Strip(args_workspace_name_column))]>>)
                    read == ReadWorkspaceRows(wb.rows, headers.headers, 2, <<>>)
                IN  IF headers.failure # NoFailure
                    THEN fail(headers.failure) /\ UNCHANGED workspaces
                    ELSE IF read.failure # NoFailure
                    THEN fail(read.failure) /\ workspaces' = read.workspaces
                    ELSE goto("query_workspaces") /\ workspaces' = read.workspaces
    /\ UNCHANGED <<data, remote, run, cursor, answers, unknown_workspaces, workspace_jobs,
                   role_templates, users, roles, unknown_roles, role_jobs,
                   unknown_users, user_jobs, created, updated>>

QueryWorkspaces ==
    /\ pc = "query_workspaces"
    /\ LET found == AssociateWorkspaces(pk_workspaces, 1, workspaces, <<>>)
       IN  /\ workspaces' = found.workspaces
           /\ unknown_workspaces' = found.unknown
    /\ goto("classify_workspaces")
    /\ UNCHANGED <<data, remote, run, cursor, answers, workspace_jobs,
                   role_templates, users, roles, unknown_roles, role_jobs,
                   unknown_users, user_jobs, created, updated>>

ClassifyWorkspaces ==
    /\ pc = "classify_workspaces"
    /\ workspace_jobs' = LET jobs == SelectSeq(workspaces, WorkspaceIsJob)
                         IN  [k \in 1..Len(jobs) |-> jobs[k].slug]
    /\ created' = Cardinality({k \in 1..Len(workspaces) : workspaces[k].item = <<>>})
    /\ updated' = Cardinality({k \in 1..Len(workspaces) :
                      /\ workspaces[k].item # <<>>
                      /\ WorkspaceIsJob(workspaces[k])})
    /\ workspaces' = [k \in 1..Len(workspaces) |->
                        IF workspaces[k].item # <<>> /\ WorkspaceIsJob(workspaces[k])
                        THEN [workspaces[k] EXCEPT !.item[1].name = workspaces[k].name]
                        ELSE workspaces[k]]
    /\ goto("confirm_workspaces")
    /\ UNCHANGED <<data, remote, run, cursor, answers, unknown_workspaces,
                   role_templates, users, roles, unknown_roles, role_jobs,
                   unknown_users, user_jobs>>

\* a line typed at a confirmation prompt
ConfirmInputs == {<<>>, <<"N">>, <<"?">>}

\* pk.workspaces.create(slug, name): the record the remote system adds
CreatedWorkspace(id, slug, name) == [id |-> id, slug |-> slug, name |-> name]

\* identifiers the remote system can give to a new workspace
FreshWorkspaceIds ==
    LET used == Keys(pk_workspaces, "id")
    IN  {n \in 1..(Cardinality(used) + MaxFreshIds) :
            /\ n \notin used
            /\ Cardinality({m \in 1..n : m \notin used}) <= MaxFreshIds}

\* item.save(): the remote record with the item's identifier takes its fields
Saved(records, item) ==
    [k \in 1..Len(records) |-> IF records[k].id = item.id THEN item ELSE records[k]]

Request(kind, op, key, id) ==
    [run |-> run, kind |-> kind, op |-> op, key |-> key, id |-> id]

ConfirmWorkspaces ==
    /\ pc = "confirm_workspaces"
    /\ IF Len(workspace_jobs) > 0
       THEN \E input \in ConfirmInputs :
               /\ answers' = [answers EXCEPT !.workspaces = <<input>>]
               /\ CASE confirm(input) = "yes" -> goto("apply_workspaces")
                    [] confirm(input) = "no" ->
                          fail(Failure("Synchronization aborted", <<>>, <<>>))
                    [] OTHER -> UNCHANGED <<pc, exit_status, failure>>
       ELSE /\ goto("read_role_templates")
            /\ UNCHANGED answers
    /\ cursor' = IF pc' = pc THEN cursor ELSE <<1, 0>>
    /\ UNCHANGED <<data, remote, run, locals>>

\* a workspace pass that does not keep the workspace it creates
ApplyWorkspaceJobDropsItem ==
    /\ pc = "apply_workspaces"
    /\ LET k == IndexOf(workspaces, "slug", workspace_jobs[cursor[1]])
           workspace == workspaces[k]
       IN  IF workspace.item = <<>>
           THEN \E id \in FreshWorkspaceIds :
                   LET item == CreatedWorkspace(id, workspace.slug, workspace.name)
                   IN  /\ pk_workspaces' = Append(pk_workspaces, item)
                       /\ UNCHANGED workspaces
                       /\ requests' = Append(requests,
                              Request("workspace", "create", workspace.slug, id))
           ELSE /\ pk_workspaces' = Saved(pk_workspaces, workspace.item[1])
                /\ requests' = Append(requests,
                       Request("workspace", "save", workspace.slug, workspace.item[1].id))
                /\ UNCHANGED workspaces
    /\ cursor' = IF cursor[1] = Len(workspace_jobs) THEN <<1, 0>> ELSE <<cursor[1] + 1, 0>>
    /\ IF cursor[1] = Len(workspace_jobs)
       THEN goto("read_role_templates")
       ELSE goto("apply_workspaces")
    /\ UNCHANGED <<data, pk_roles, pk_users, run, answers, unknown_workspaces,
                   workspace_jobs, role_templates, users, roles, unknown_roles,
                   role_jobs, unknown_users, user_jobs, created, updated>>

\* lines 200-206: the write of the job at the cursor
ApplyWorkspaceJob ==
    /\ pc = "apply_workspaces"
    /\ LET k == IndexOf(workspaces, "slug", workspace_jobs[cursor[1]])
           workspace == workspaces[k]
       IN  IF workspace.item = <<>>
           THEN \E id \in FreshWorkspaceIds :
                   LET item == CreatedWorkspace(id, workspace.slug, workspace.name)
                   IN  /\ pk_workspaces' = Append(pk_workspaces, item)
                       /\ workspaces' = [workspaces EXCEPT ![k].item = <<item>>]
                       /\ requests' = Append(requests,
                              Request("workspace", "create", workspace.slug, id))
           ELSE /\ pk_workspaces' = Saved(pk_workspaces, workspace.item[1])
                /\ requests' = Append(requests,
                       Request("workspace", "save", workspace.slug, workspace.item[1].id))
                /\ UNCHANGED workspaces
    /\ cursor' = IF cursor[1] = Len(workspace_jobs) THEN <<1, 0>> ELSE <<cursor[1] + 1, 0>>
    /\ IF cursor[1] = Len(workspace_jobs)
       THEN goto("read_role_templates")
       ELSE goto("apply_workspaces")
    /\ UNCHANGED <<data, pk_roles, pk_users, run, answers, unknown_workspaces,
                   workspace_jobs, role_templates, users, roles, unknown_roles,
                   role_jobs, unknown_users, user_jobs, created, updated>>

----------------------------------------------------------------------------
(* Role templates *)

\* obj[key] = value on a dict whose order of keys does not matter
Assign(obj, key, value) == (key :> value) @@ obj

\* set_prop(obj, path, value), keys the path split at its dots.  Every key
\* but the last is looked up, and created when absent, in obj itself, and
\* the value goes into the dict under the last but one key.
set_prop(obj, keys, value) ==
    IF Len(keys) = 1 THEN Assign(obj, keys[1], value)
    ELSE LET made == obj @@ [x \in {keys[k] : k \in 1..(Len(keys) - 1)} |-> <<>>]
             last == keys[Len(keys) - 1]
         IN  [made EXCEPT ![last] = Assign(made[last], keys[Len(keys)], value)]

Categories == {role_permission_lookup[k].category : k \in 1..Len(role_permission_lookup)}

\* row[0] in role_permission_lookup[category]
PermissionKnown(category, label) ==
    \E k \in 1..Len(role_permission_lookup) :
        /\ role_permission_lookup[k].category = category
        /\ role_permission_lookup[k].label = label

\* a lookup of the label in every category at once
PermissionPathOfLabel(category, label) ==
    LET k == CHOOSE k \in 1..Len(role_permission_lookup) :
                 role_permission_lookup[k].label = label
    IN  role_permission_lookup[k].path

\* role_permission_lookup[category][row[0]]
PermissionPath(category, label) ==
    LET k == CHOOSE k \in 1..Len(role_permission_lookup) :
                 /\ role_permission_lookup[k].category = category
                 /\ role_permission_lookup[k].label = label
    IN  role_permission_lookup[k].path

\* lines 280-285: the role template with every path of the lookup set to
\* False by set_prop, which makes one dict per first key of the paths
SeedRoleTemplate ==
    LET paths == {role_permission_lookup[k].path : k \in 1..Len(role_permission_lookup)}
    IN  [x \in {"name"} \cup {path[1] : path \in paths} |->
            IF x = "name" THEN NoneCell
            ELSE [key \in {path[2] : path \in {q \in paths : q[1] = x}} |-> FALSE]]

\* lines 290-324, from row k on; category is <<>> while it is None
RECURSIVE ParseRoleTemplateRows(_, _, _, _)
ParseRoleTemplateRows(rows, k, role_template, category) ==
    IF k > Len(rows) THEN [failure |-> NoFailure, role_template |-> role_template]
    ELSE LET row == rows[k]
             stop(f) == [failure |-> f, role_template |-> role_template]
         IN  IF row[1] = Str(<<"N","a","m","e">>)
             THEN IF Truthy(row[2])
                  THEN ParseRoleTemplateRows(rows, k + 1,
                           [role_template EXCEPT !["name"] = row[2]], category)
                  ELSE stop(Failure("Invalid 'Name' specification", <<>>, <<>>))
             ELSE IF Truthy(row[1]) /\ row[2].t = "none"
             THEN IF row[1].t # "str" THEN stop(Exception("AttributeError"))
                  ELSE IF Strip(row[1].v) \notin Categories
                  THEN stop(Failure("Invalid permission category", Strip(row[1].v), <<>>))
                  ELSE ParseRoleTemplateRows(rows, k + 1, role_template,
                           <<Strip(row[1].v)>>)
             ELSE IF Truthy(row[1]) /\ Truthy(row[2])
             THEN IF category # <<>> /\ category[1] # <<>>
                  THEN IF row[1].t = "str" /\ PermissionKnown(category[1], row[1].v)
                       THEN IF row[2].t # "str" THEN stop(Exception("AttributeError"))
                            ELSE ParseRoleTemplateRows(rows, k + 1,
                                     set_prop(role_template,
                                         PermissionPath(category[1], row[1].v),
                                         Lower(row[2].v) = <<"y","e","s">>),
                                     category)
                       ELSE IF row[1].t # "str" \/ row[2].t # "str"
                       THEN stop(Exception("TypeError"))
                       ELSE stop(Failure("Invalid permission", row[1].v, <<>>))
                  ELSE IF row[1].t # "str" \/ row[2].t # "str"
                  THEN stop(Exception("TypeError"))
                  ELSE stop(Failure("Permission outside of a category", row[1].v, <<>>))
             ELSE IF Truthy(row[1]) \/ Truthy(row[2])
             THEN stop(Failure("Invalid row contents", <<>>, <<>>))
             ELSE ParseRoleTemplateRows(rows, k + 1, role_template, category)

\* lines 277-342 for one worksheet: [failure, role_templates]
ReadSheet(sheet, templates) ==
    LET parsed == ParseRoleTemplateRows(sheet.rows, 1, SeedRoleTemplate, <<>>)
        name == parsed.role_template["name"]
        stop(f) == [failure |-> f, role_templates |-> templates]
    IN  IF parsed.failure # NoFailure THEN stop(parsed.failure)
        ELSE IF Truthy(name)
        THEN IF name.t # "str" THEN stop(Exception("TypeError"))
             ELSE IF name # Str(sheet.sheetname)
             THEN stop(Failure("Sheet name does not match role template name",
                               name.v, <<>>))
             ELSE IF ~Has(templates, "name", name)
             THEN [failure |-> NoFailure,
                   role_templates |-> Append(templates, parsed.role_template)]
             ELSE stop(Failure("Role template already defined", name.v, <<>>))
        ELSE stop(Failure("Role template name must be specified", <<>>, <<>>))

ReadRoleTemplate ==
    /\ pc = "read_role_templates"
    /\ LET wb == data.roles
       IN  IF cursor[1] > Len(wb)
           THEN /\ goto("read_users")
                /\ cursor' = <<0, 0>>
                /\ UNCHANGED role_templates
           ELSE LET read == ReadSheet(wb[cursor[1]], role_templates)
                IN  /\ role_templates' = read.role_templates
                    /\ cursor' = <<cursor[1] + 1, 0>>
                    /\ IF read.failure # NoFailure
                       THEN fail(read.failure)
                       ELSE goto("read_role_templates")
    /\ UNCHANGED <<data, remote, run, answers, workspaces, unknown_workspaces,
                   workspace_jobs, users, roles, unknown_roles, role_jobs,
                   unknown_users, user_jobs, created, updated>>

----------------------------------------------------------------------------
(* Users *)

\* lines 380-391, from header entry k on; row_none is "" while it is False
RECURSIVE ParseUserColumns(_, _, _, _, _, _)
ParseUserColumns(row, headers, k, user_row, row_empty, row_none) ==
    IF k > Len(headers)
    THEN [failure |-> NoFailure, user_row |-> user_row,
          row_empty |-> row_empty, row_none |-> row_none]
    ELSE LET col == headers[k].key
             val == Cell(row, headers, col)
         IN  IF val.t # "none"
             THEN IF col = "active"
                  THEN ParseUserColumns(row, headers, k + 1,
                           Assign(user_row, col, Str(<<parse_bool(val)>>)), FALSE, row_none)
                  ELSE IF val.t # "str"
                  THEN [failure |-> Exception("AttributeError"), user_row |-> user_row,
                        row_empty |-> FALSE, row_none |-> row_none]
                  ELSE IF col = "email" \/ col = "workspace"
                  THEN ParseUserColumns(row, headers, k + 1,
                           Assign(user_row, col, Str(Lower(Strip(val.v)))), FALSE, row_none)
                  ELSE ParseUserColumns(row, headers, k + 1,
                           Assign(user_row, col, Str(Strip(val.v))), FALSE, row_none)
             ELSE ParseUserColumns(row, headers, k + 1, user_row, row_empty, col)

\* a loader without the check of line 421
AssignedTwiceNever(user, user_row) == FALSE

\* line 421: the user already has an assignment for the workspace of the row
AssignedTwice(user, user_row) == Has(user.workspaces, "workspace", user_row["workspace"].v)

\* a loader that compares the role of the row with itself
RoleConflictsNever(workspace, user_row) == user_row["role"].v # user_row["role"].v

\* line 428: an assignment of the user names another role than the row
RoleConflicts(workspace, user_row) == workspace.role # user_row["role"].v

\* a loader that gives a known user the name and the active flag of the row
RecordUserRenamed(user_row, user_file, us, ws) ==
    LET email == user_row["email"].v
        slug == user_row["workspace"].v
        made == IF Has(us, "email", email)
                THEN [us EXCEPT ![IndexOf(us, "email", email)].name = user_row["name"].v,
                                ![IndexOf(us, "email", email)].active =
                                     user_row["active"].v[1]]
                ELSE Append(us, [name |-> user_row["name"].v,
                                 email |-> email,
                                 active |-> user_row["active"].v[1],
                                 workspaces |-> <<>>,
                                 item |-> <<>>,
                                 role |-> <<>>])
        k == IndexOf(made, "email", email)
        user == made[k]
        conflicts == {m \in 1..Len(user.workspaces) :
                         RoleConflicts(user.workspaces[m], user_row)}
    IN  IF ~Has(ws, "slug", slug)
        THEN [failure |-> Failure("User references an unknown workspace", slug, <<>>),
              users |-> us]
        ELSE IF AssignedTwice(user, user_row)
        THEN [failure |-> Failure("User has multiple role assignments for workspace",
                                  slug, Get(user.workspaces, "workspace", slug).file),
              users |-> made]
        ELSE IF conflicts # {}
        THEN [failure |-> Failure("User has conflicting role assignments",
                   user_row["role"].v,
                   user.workspaces[CHOOSE m \in conflicts :
                                       \A n \in conflicts : m <= n].file),
              users |-> made]
        ELSE [failure |-> NoFailure,
              users |-> [made EXCEPT ![k].workspaces =
                            Append(@, [role |-> user_row["role"].v,
                                       workspace |-> slug,
                                       file |-> user_file])]]

\* lines 401-440 for one parsed row: [failure, users]
RecordUser(user_row, user_file, us, ws) ==
    LET email == user_row["email"].v
        slug == user_row["workspace"].v
        made == IF Has(us, "email", email) THEN us
                ELSE Append(us, [name |-> user_row["name"].v,
                                 email |-> email,
                                 active |-> user_row["active"].v[1],
                                 workspaces |-> <<>>,
                                 item |-> <<>>,
                                 role |-> <<>>])
        k == IndexOf(made, "email", email)
        user == made[k]
        conflicts == {m \in 1..Len(user.workspaces) :
                         RoleConflicts(user.workspaces[m], user_row)}
    IN  IF ~Has(ws, "slug", slug)
        THEN [failure |-> Failure("User references an unknown workspace", slug, <<>>),
              users |-> us]
        ELSE IF AssignedTwice(user, user_row)
        THEN [failure |-> Failure("User has multiple role assignments for workspace",
                                  slug, Get(user.workspaces, "workspace", slug).file),
              users |-> made]
        ELSE IF conflicts # {}
        THEN [failure |-> Failure("User has conflicting role assignments",
                   user_row["role"].v,
                   user.workspaces[CHOOSE m \in conflicts :
                                       \A n \in conflicts : m <= n].file),
              users |-> made]
        ELSE [failure |-> NoFailure,
              users |-> [made EXCEPT ![k].workspaces =
                            Append(@, [role |-> user_row["role"].v,
                                       workspace |-> slug,
                                       file |-> user_file])]]

\* the options given to resolve_headers at lines 365-371
UserHeaderOptions ==
    <<[key |-> "workspace", head |-> Lower(Strip(args_user_workspace_column))],
      [key |-> "name", head |-> Lower(Strip(args_user_name_column))],
      [key |-> "email", head |-> Lower(Strip(args_user_email_column))],
      [key |-> "role", head |-> Lower(Strip(args_user_role_column))],
      [key |-> "active", head |-> Lower(Strip(args_user_active_column))]>>

\* lines 356-371: the loop over the user files goes on to the next file,
\* or ends.  cursor = <<file, data rows of the file read>>
NextUserFile ==
    /\ pc = "read_users"
    /\ IF cursor[1] = 0 THEN TRUE
       ELSE cursor[2] = Len(data.users[cursor[1]].rows) - 1
    /\ IF cursor[1] = Len(data.users)
       THEN /\ goto("compile_roles")
            /\ cursor' = <<1, 0>>
       ELSE LET wb == data.users[cursor[1] + 1]
            IN  /\ cursor' = <<cursor[1] + 1, 0>>
                /\ IF ~(\E k \in 1..Len(wb.sheetnames) :
                           wb.sheetnames[k] = <<"U","s","e","r","s">>)
                   THEN fail(Failure("Workbook must contain sheet", <<>>, <<>>))
                   ELSE LET headers == resolve_headers(wb.rows[1], UserHeaderOptions)
                        IN  IF headers.failure # NoFailure
                            THEN fail(headers.failure)
                            ELSE goto("read_users")
    /\ UNCHANGED <<data, remote, run, answers, locals>>

\* lines 375-440 for the next row of the file
ReadUserRow ==
    /\ pc = "read_users"
    /\ cursor[1] > 0
    /\ cursor[2] < Len(data.users[cursor[1]].rows) - 1
    /\ LET wb == data.users[cursor[1]]
           headers == resolve_headers(wb.rows[1], UserHeaderOptions).headers
           row == wb.rows[cursor[2] + 2]
           parsed == ParseUserColumns(row, headers, 1, <<>>, TRUE, "")
       IN  IF parsed.failure # NoFailure
           THEN fail(parsed.failure) /\ UNCHANGED users
           ELSE IF parsed.row_empty
           THEN goto("read_users") /\ UNCHANGED users
           ELSE IF parsed.row_none # ""
           THEN /\ fail(Failure("User is missing value", <<parsed.row_none>>, <<>>))
                /\ UNCHANGED users
           ELSE LET recorded == RecordUser(parsed.user_row, wb.file, users, workspaces)
                IN  /\ users' = recorded.users
                    /\ IF recorded.failure # NoFailure
                       THEN fail(recorded.failure)
                       ELSE goto("read_users")
    /\ cursor' = <<cursor[1], cursor[2] + 1>>
    /\ UNCHANGED <<data, remote, run, answers, workspaces, unknown_workspaces,
                   workspace_jobs, role_templates, roles, unknown_roles, role_jobs,
                   unknown_users, user_jobs, created, updated>>

----------------------------------------------------------------------------
(* Roles *)

\* a role name made of the slugs in alphabetical order of their first letter
RoleNameAlphabetized(role_workspaces, role_template_name) ==
    LET Rank(slug) == CHOOSE n \in 1..26 : LowerCase[n] = slug[1]
        sorted == CHOOSE s \in [1..Len(role_workspaces) -> Range(role_workspaces)] :
                     /\ Range(s) = Range(role_workspaces)
                     /\ \A i, j \in 1..Len(s) : i < j => Rank(s[i]) <= Rank(s[j])
    IN  <<"[">> \o Upper(Join(<<"+">>, sorted)) \o <<"]", " ">> \o role_template_name

\* line 463
RoleName(role_workspaces, role_template_name) ==
    <<"[">> \o Upper(Join(<<"+">>, role_workspaces)) \o <<"]", " ">> \o role_template_name

\* a compilation that leaves the entries in the order they were appended
Unsorted(entries) == entries

\* list.sort(key=lambda ws: ws["id"]): a stable sort, here by insertion
RECURSIVE SortById(_)
SortById(entries) ==
    IF entries = <<>> THEN <<>>
    ELSE LET sorted == SortById(SubSeq(entries, 1, Len(entries) - 1))
             last == entries[Len(entries)]
             before == {k \in 1..Len(sorted) : sorted[k]["id"] <= last["id"]}
             n == Cardinality(before)
         IN  SubSeq(sorted, 1, n) \o <<last>> \o SubSeq(sorted, n + 1, Len(sorted))

\* lines 475-476, 487-488 and 503-504: set_prop(obj, key, value) for every
\* item of a dict of the role template
SetAll(obj, permissions) ==
    [x \in (DOMAIN obj) \cup (DOMAIN permissions) |->
        IF x \in DOMAIN permissions
        THEN set_prop(obj, <<x>>, permissions[x])[x]
        ELSE obj[x]]

\* lines 484-488 and 500-504: one workspace entry of a permission document
WorkspaceEntry(id, permissions) ==
    SetAll([x \in {"id"} |-> id], permissions)

\* lines 479-489, from primary workspace k on: [failure, entries]
RECURSIVE PrimaryEntries(_, _, _, _)
PrimaryEntries(role_workspaces, k, role_template, ws) ==
    IF k > Len(role_workspaces) THEN [failure |-> NoFailure, entries |-> <<>>]
    ELSE LET slug == role_workspaces[k]
         IN  IF ~Has(ws, "slug", slug) \/ Get(ws, "slug", slug).item = <<>>
             THEN [failure |-> Failure("Workspace not found", slug, <<>>),
                   entries |-> <<>>]
             ELSE LET rest == PrimaryEntries(role_workspaces, k + 1, role_template, ws)
                      wp == WorkspaceEntry(Get(ws, "slug", slug).item[1].id,
                                           role_template["primary_workspaces"])
                  IN  [failure |-> rest.failure, entries |-> <<wp>> \o rest.entries]

\* lines 492-496
OtherWorkspacesRequired(role_template) ==
    \E key \in DOMAIN role_template["other_workspaces"] :
        role_template["other_workspaces"][key] = TRUE

\* lines 498-505, from desired workspace k on: [failure, entries]
RECURSIVE OtherEntries(_, _, _, _)
OtherEntries(role_workspaces, k, role_template, ws) ==
    IF k > Len(ws) THEN [failure |-> NoFailure, entries |-> <<>>]
    ELSE IF ws[k].slug \in Range(role_workspaces)
    THEN OtherEntries(role_workspaces, k + 1, role_template, ws)
    ELSE IF ws[k].item = <<>>
    THEN [failure |-> Exception("AttributeError"), entries |-> <<>>]
    ELSE LET rest == OtherEntries(role_workspaces, k + 1, role_template, ws)
             wp == WorkspaceEntry(ws[k].item[1].id, role_template["other_workspaces"])
         IN  [failure |-> rest.failure, entries |-> <<wp>> \o rest.entries]

\* lines 465-509: the role made for a user group: [failure, role]
CompileRole(role_name, role_workspaces, role_template, ws) ==
    LET organization == SetAll([x \in {"workspaces"} |-> <<>>],
                               role_template["organization"])
        primary == PrimaryEntries(role_workspaces, 1, role_template, ws)
        other == IF OtherWorkspacesRequired(role_template)
                 THEN OtherEntries(role_workspaces, 1, role_template, ws)
                 ELSE [failure |-> NoFailure, entries |-> <<>>]
        role(entries) ==
            [name |-> role_name,
             item |-> <<>>,
             data |-> [organization EXCEPT !["workspaces"] = entries]]
    IN  IF primary.failure # NoFailure
        THEN [failure |-> primary.failure, role |-> role(<<>>)]
        ELSE IF other.failure # NoFailure
        THEN [failure |-> other.failure, role |-> role(<<>>)]
        ELSE [failure |-> NoFailure,
              role |-> role(SortById(primary.entries \o other.entries))]

\* lines 453-512 for the user at cursor[1]
CompileUserRole ==
    /\ pc = "compile_roles"
    /\ IF cursor[1] > Len(users)
       THEN /\ goto("query_roles")
            /\ UNCHANGED <<users, roles, cursor>>
       ELSE LET user == users[cursor[1]]
                role_workspaces == [k \in 1..Len(user.workspaces) |->
                                       user.workspaces[k].workspace]
                role_template_name == user.workspaces[Len(user.workspaces)].role
                role_name == RoleName(role_workspaces, role_template_name)
            IN  /\ cursor' = <<cursor[1] + 1, 0>>
                /\ IF Has(roles, "name", role_name)
                   THEN /\ users' = [users EXCEPT ![cursor[1]].role = <<role_name>>]
                        /\ goto("compile_roles")
                        /\ UNCHANGED roles
                   ELSE IF ~Has(role_templates, "name", Str(role_template_name))
                   THEN /\ fail(Exception("KeyError"))
                        /\ UNCHANGED <<users, roles>>
                   ELSE LET made == CompileRole(role_name, role_workspaces,
                                        Get(role_templates, "name", Str(role_template_name)),
                                        workspaces)
                        IN  IF made.failure # NoFailure
                            THEN /\ fail(made.failure)
                                 /\ UNCHANGED <<users, roles>>
                            ELSE /\ roles' = Append(roles, made.role)
                                 /\ users' = [users EXCEPT ![cursor[1]].role = <<role_name>>]
                                 /\ goto("compile_roles")
    /\ UNCHANGED <<data, remote, run, answers, workspaces, unknown_workspaces,
                   workspace_jobs, role_templates, unknown_roles, role_jobs,
                   unknown_users, user_jobs, created, updated>>

\* a role pass that leaves the bookkeeping fields in the queried document
PopNothing(obj, key) == obj

\* dict.pop(key, None)
Pop(obj, key) == [x \in (DOMAIN obj) \ {key} |-> obj[x]]

\* line 518: the remote role matches a desired one
RoleMatches(role_item, rs) == Has(rs, "name", role_item.name)

\* a role pass that reports every unmatched remote role
RoleReportedAlways(role_item) == TRUE

\* line 522: an unmatched remote role is reported
RoleReported(role_item) == role_item.name # <<"A","d","m","i","n">>

\* lines 516-523, from remote record k on: [roles, unknown]
RECURSIVE AssociateRoles(_, _, _, _)
AssociateRoles(items, k, rs, unknown) ==
    IF k > Len(items) THEN [roles |-> rs, unknown |-> unknown]
    ELSE LET role_item == [items[k] EXCEPT !.permissions["workspaces"] = SortById(@)]
         IN  IF RoleMatches(role_item, rs)
             THEN AssociateRoles(items, k + 1,
                      [rs EXCEPT ![IndexOf(rs, "name", role_item.name)].item =
                          <<[role_item EXCEPT !.permissions =
                                 Pop(Pop(@, "private"), "user")]>>],
                      unknown)
             ELSE IF RoleReported(role_item)
             THEN AssociateRoles(items, k + 1, rs, Append(unknown, role_item))
             ELSE AssociateRoles(items, k + 1, rs, unknown)

\* line 533: the remote role differs from the desired one
RoleDiffers(role) == role.data # role.item[1].permissions

\* lines 530-536: does the role become a job
RoleIsJob(role) == IF role.item = <<>> THEN TRUE ELSE RoleDiffers(role)

\* pk.roles.create(name, permissions): the record the remote system adds;
\* it keeps the two bookkeeping fields next to the permissions given
CreatedRole(id, name, permissions) ==
    [id |-> id, name |-> name,
     permissions |-> Assign(Assign(permissions, "private", FALSE), "user", <<>>)]

\* the identifier the remote system gives to a new role or user
FreshId(records) ==
    IF records = <<>> THEN 1
    ELSE 1 + (CHOOSE n \in Keys(records, "id") : \A m \in Keys(records, "id") : m <= n)

QueryRoles ==
    /\ pc = "query_roles"
    /\ LET found == AssociateRoles(pk_roles, 1, roles, <<>>)
       IN  /\ roles' = found.roles
           /\ unknown_roles' = found.unknown
    /\ goto("classify_roles")
    /\ UNCHANGED <<data, remote, run, cursor, answers, workspaces, unknown_workspaces,
                   workspace_jobs, role_templates, users, role_jobs,
                   unknown_users, user_jobs, created, updated>>

ClassifyRoles ==
    /\ pc = "classify_roles"
    /\ role_jobs' = LET jobs == SelectSeq(roles, RoleIsJob)
                    IN  [k \in 1..Len(jobs) |-> jobs[k].name]
    /\ created' = Cardinality({k \in 1..Len(roles) : roles[k].item = <<>>})
    /\ updated' = Cardinality({k \in 1..Len(roles) :
                      roles[k].item # <<>> /\ RoleIsJob(roles[k])})
    /\ roles' = [k \in 1..Len(roles) |->
                    IF roles[k].item # <<>> /\ RoleIsJob(roles[k])
                    THEN [roles[k] EXCEPT !.item[1].permissions = roles[k].data]
                    ELSE roles[k]]
    /\ goto("confirm_roles")
    /\ UNCHANGED <<data, remote, run, cursor, answers, workspaces, unknown_workspaces,
                   workspace_jobs, role_templates, users, unknown_roles,
                   unknown_users, user_jobs>>

ConfirmRoles ==
    /\ pc = "confirm_roles"
    /\ IF Len(role_jobs) > 0
       THEN \E input \in ConfirmInputs :
               /\ answers' = [answers EXCEPT !.roles = <<input>>]
               /\ CASE confirm(input) = "yes" -> goto("apply_roles")
                    [] confirm(input) = "no" ->
                          fail(Failure("Synchronization aborted", <<>>, <<>>))
                    [] OTHER -> UNCHANGED <<pc, exit_status, failure>>
       ELSE /\ goto("query_users")
            /\ UNCHANGED answers
    /\ cursor' = IF pc' = pc THEN cursor ELSE <<1, 0>>
    /\ UNCHANGED <<data, remote, run, locals>>

\* lines 543-549 for the job at cursor[1].  An updated role's item shares
\* its permissions dict with the role's data (line 534), so lines 547-548
\* write to both.
ApplyRoleJob ==
    /\ pc = "apply_roles"
    /\ LET k == IndexOf(roles, "name", role_jobs[cursor[1]])
           role == roles[k]
       IN  IF role.item = <<>>
           THEN LET item == CreatedRole(FreshId(pk_roles), role.name, role.data)
                IN  /\ pk_roles' = Append(pk_roles, item)
                    /\ roles' = [roles EXCEPT ![k].item = <<item>>]
                    /\ requests' = Append(requests,
                           Request("role", "create", role.name, item.id))
           ELSE LET permissions == Assign(Assign(role.item[1].permissions,
                                       "private", FALSE), "user", <<>>)
                    item == [role.item[1] EXCEPT !.permissions = permissions]
                IN  /\ pk_roles' = Saved(pk_roles, item)
                    /\ roles' = [roles EXCEPT ![k].item = <<item>>,
                                              ![k].data = permissions]
                    /\ requests' = Append(requests,
                           Request("role", "save", role.name, item.id))
    /\ cursor' = IF cursor[1] = Len(role_jobs) THEN <<1, 0>> ELSE <<cursor[1] + 1, 0>>
    /\ IF cursor[1] = Len(role_jobs)
       THEN goto("query_users")
       ELSE goto("apply_roles")
    /\ UNCHANGED <<data, pk_workspaces, pk_users, run, answers, workspaces,
                   unknown_workspaces, workspace_jobs, role_templates, users,
                   unknown_roles, role_jobs, unknown_users, user_jobs, created, updated>>

----------------------------------------------------------------------------
(* Users *)

\* line 563: the remote user matches a desired one
UserMatches(user_item, us) == Has(us, "email", user_item.email)

\* lines 562-566, from remote record k on: [users, unknown]
RECURSIVE AssociateUsers(_, _, _, _)
AssociateUsers(items, k, us, unknown) ==
    IF k > Len(items) THEN [users |-> us, unknown |-> unknown]
    ELSE IF UserMatches(items[k], us)
    THEN AssociateUsers(items, k + 1,
             [us EXCEPT ![IndexOf(us, "email", items[k].email)].item = <<items[k]>>],
             unknown)
    ELSE AssociateUsers(items, k + 1, us, Append(unknown, items[k]))

\* a user pass that passes the identifier its role would get if it were
\* created now
RoleIdNotYetCreated(user, rs) == FreshId(pk_roles)

\* user["role"]["item"].id
RoleId(user, rs) == Get(rs, "name", user.role[1]).item[1].id

\* lines 577-578: the remote user differs from the desired one
UserDiffers(user, rs) ==
    \/ user.name # user.item[1].name
    \/ user.active # user.item[1].active
    \/ RoleId(user, rs) # user.item[1].role_id

\* lines 574-580: does the user become a job
UserIsJob(user, rs) == IF user.item = <<>> THEN TRUE ELSE UserDiffers(user, rs)

\* pk.users.create(email, name, role_id): the record the remote system
\* adds; a new user is active
CreatedUser(id, email, name, role_id) ==
    [id |-> id, email |-> email, name |-> name, active |-> "True", role_id |-> role_id]

QueryUsers ==
    /\ pc = "query_users"
    /\ LET found == AssociateUsers(pk_users, 1, users, <<>>)
       IN  /\ users' = found.users
           /\ unknown_users' = found.unknown
    /\ goto("classify_users")
    /\ UNCHANGED <<data, remote, run, cursor, answers, workspaces, unknown_workspaces,
                   workspace_jobs, role_templates, roles, unknown_roles, role_jobs,
                   user_jobs, created, updated>>

ClassifyUsers ==
    /\ pc = "classify_users"
    /\ user_jobs' = LET Job(user) == UserIsJob(user, roles)
                        jobs == SelectSeq(users, Job)
                    IN  [k \in 1..Len(jobs) |-> jobs[k].email]
    /\ created' = Cardinality({k \in 1..Len(users) : users[k].item = <<>>})
    /\ updated' = Cardinality({k \in 1..Len(users) :
                      users[k].item # <<>> /\ UserIsJob(users[k], roles)})
    /\ goto("confirm_users")
    /\ UNCHANGED <<data, remote, run, cursor, answers, workspaces, unknown_workspaces,
                   workspace_jobs, role_templates, users, roles, unknown_roles,
                   role_jobs, unknown_users>>

ConfirmUsers ==
    /\ pc = "confirm_users"
    /\ IF Len(user_jobs) > 0
       THEN \E input \in ConfirmInputs :
               /\ answers' = [answers EXCEPT !.users = <<input>>]
               /\ CASE confirm(input) = "yes" -> goto("apply_users")
                    [] confirm(input) = "no" ->
                          fail(Failure("Synchronization aborted", <<>>, <<>>))
                    [] OTHER -> UNCHANGED <<pc, exit_status, failure>>
       ELSE /\ goto("report")
            /\ UNCHANGED answers
    /\ cursor' = IF pc' = pc THEN cursor ELSE <<1, 0>>
    /\ UNCHANGED <<data, remote, run, locals>>

\* lines 587-595 for the job at cursor[1]
ApplyUserJob ==
    /\ pc = "apply_users"
    /\ LET k == IndexOf(users, "email", user_jobs[cursor[1]])
           user == users[k]
       IN  IF user.item = <<>>
           THEN LET item == CreatedUser(FreshId(pk_users), user.email, user.name,
                                        RoleId(user, roles))
                IN  /\ pk_users' = Append(pk_users, item)
                    /\ users' = [users EXCEPT ![k].item = <<item>>]
                    /\ requests' = Append(requests,
                           Request("user", "create", user.email, item.id))
           ELSE LET got == Get(pk_users, "id", user.item[1].id)
                    item == [got EXCEPT !.name = user.name,
                                        !.active = user.active,
                                        !.role_id = RoleId(user, roles)]
                IN  /\ pk_users' = Saved(pk_users, item)
                    /\ requests' = Append(requests,
                           Request("user", "save", user.email, item.id))
                    /\ UNCHANGED users
    /\ cursor' = IF cursor[1] = Len(user_jobs) THEN <<1, 0>> ELSE <<cursor[1] + 1, 0>>
    /\ IF cursor[1] = Len(user_jobs)
       THEN goto("report")
       ELSE goto("apply_users")
    /\ UNCHANGED <<data, pk_workspaces, pk_roles, run, answers, workspaces,
                   unknown_workspaces, workspace_jobs, role_templates, roles,
                   unknown_roles, role_jobs, unknown_users, user_jobs, created, updated>>

----------------------------------------------------------------------------
(* Reporting, and the end of the run *)

\* lines 604-616 and the end of the script: exit status 0
Report ==
    /\ pc = "report"
    /\ pc' = "exit"
    /\ exit_status' = 0
    /\ UNCHANGED <<data, remote, run, cursor, failure, answers, locals>>

\* the script is run again on the same data directory, after a run that
\* went through
Rerun ==
    /\ pc = "exit"
    /\ exit_status = 0
    /\ run < MaxRuns
    /\ run' = run + 1
    /\ pc' = "read_workspaces"
    /\ cursor' = <<1, 0>>
    /\ exit_status' = -1
    /\ failure' = NoFailure
    /\ answers' = [workspaces |-> <<>>, roles |-> <<>>, users |-> <<>>]
    /\ workspaces' = <<>>
    /\ unknown_workspaces' = <<>>
    /\ workspace_jobs' = <<>>
    /\ role_templates' = <<>>
    /\ users' = <<>>
    /\ roles' = <<>>
    /\ unknown_roles' = <<>>
    /\ role_jobs' = <<>>
    /\ unknown_users' = <<>>
    /\ user_jobs' = <<>>
    /\ created' = 0
    /\ updated' = 0
    /\ UNCHANGED <<data, remote>>

Next ==
    \/ ReadWorkspaces
    \/ QueryWorkspaces
    \/ ClassifyWorkspaces
    \/ ConfirmWorkspaces
    \/ ApplyWorkspaceJob
    \/ ReadRoleTemplate
    \/ NextUserFile
    \/ ReadUserRow
    \/ CompileUserRole
    \/ QueryRoles
    \/ ClassifyRoles
    \/ ConfirmRoles
    \/ ApplyRoleJob
    \/ QueryUsers
    \/ ClassifyUsers
    \/ ConfirmUsers
    \/ ApplyUserJob
    \/ Report
    \/ Rerun

\* the script starts on a data directory and a remote system
Start(directories, remotes) ==
    /\ data \in directories
    /\ \E system \in remotes :
          /\ pk_workspaces = system[1]
          /\ pk_roles = system[2]
          /\ pk_users = system[3]
    /\ requests = <<>>
    /\ run = 1
    /\ pc = "read_workspaces"
    /\ cursor = <<1, 0>>
    /\ exit_status = -1
    /\ failure = NoFailure
    /\ answers = [workspaces |-> <<>>, roles |-> <<>>, users |-> <<>>]
    /\ workspaces = <<>>
    /\ unknown_workspaces = <<>>
    /\ workspace_jobs = <<>>
    /\ role_templates = <<>>
    /\ users = <<>>
    /\ roles = <<>>
    /\ unknown_roles = <<>>
    /\ role_jobs = <<>>
    /\ unknown_users = <<>>
    /\ user_jobs = <<>>
    /\ created = 0
    /\ updated = 0

----------------------------------------------------------------------------
(* Data directories and remote systems the script is run on *)

WorkspaceSheet(cells) ==
    [sheetnames |-> << <<"W","o","r","k","s","p","a","c","e","s">> >>,
     rows |-> << <<Str(<<"S","l","u","g">>), Str(<<"N","a","m","e">>)>> >>
              \o [k \in 1..Len(cells) |-> <<Str(cells[k]), Str(<<"N">>)>>]]

\* workbooks with two and with three workspaces; slugs are normalized on reading
WorkspaceWorkbooks ==
    {WorkspaceSheet(<< <<"a">>, <<" ","B">> >>),
     WorkspaceSheet(<< <<"a">>, <<" ","B">>, <<"c"," ">> >>)}

\* template S: read access to the primary workspaces
SheetS ==
    [sheetname |-> <<"S">>,
     rows |-> << <<Str(<<"N","a","m","e">>), Str(<<"S">>)>>,
                 <<Str(<<"P","r","i","m","a","r","y"," ","W","o","r","k","s","p","a","c","e","s">>), NoneCell>>,
                 <<Str(<<"R","e","a","d"," ","P","a","t","i","e","n","t","s">>), Str(<<"Y","e","s">>)>> >>]

\* template T: an organization permission, read and contour access to the
\* primary workspaces, and read access to the other workspaces
SheetT ==
    [sheetname |-> <<"T">>,
     rows |-> << <<Str(<<"N","a","m","e">>), Str(<<"T">>)>>,
                 <<Str(<<"O","r","g","a","n","i","z","a","t","i","o","n"," ","M","a","n","a","g","e","m","e","n","t"," ","P","e","r","m","i","s","s","i","o","n","s">>), NoneCell>>,
                 <<Str(<<"M","a","n","a","g","e"," ","C","u","s","t","o","m"," ","M","e","t","r","i","c","s">>), Str(<<"y","e","s">>)>>,
                 <<Str(<<"P","r","i","m","a","r","y"," ","W","o","r","k","s","p","a","c","e","s">>), NoneCell>>,
                 <<Str(<<"R","e","a","d"," ","P","a","t","i","e","n","t","s">>), Str(<<"y","e","s">>)>>,
                 <<Str(<<"W","r","i","t","e"," ","P","a","t","i","e","n","t","s">>), Str(<<"n","o">>)>>,
                 <<Str(<<"C","o","n","t","o","u","r"," ","P","a","t","i","e","n","t","s">>), Str(<<"Y","e","s">>)>>,
                 <<Str(<<"O","t","h","e","r"," ","W","o","r","k","s","p","a","c","e","s">>), NoneCell>>,
                 <<Str(<<"R","e","a","d"," ","P","a","t","i","e","n","t","s">>), Str(<<"Y","E","S">>)>> >>]

\* a sheet with a permission row before any category row
SheetB ==
    [sheetname |-> <<"B">>,
     rows |-> << <<Str(<<"N","a","m","e">>), Str(<<"B">>)>>,
                 <<Str(<<"R","e","a","d"," ","P","a","t","i","e","n","t","s">>), Str(<<"y","e","s">>)>> >>]

RoleWorkbooks == {<<SheetS, SheetT>>, <<SheetS, SheetB>>}

UserHeader ==
    <<Str(<<"W","o","r","k","s","p","a","c","e">>), Str(<<"N","a","m","e">>),
      Str(<<"E","m","a","i","l">>), Str(<<"R","o","l","e">>),
      Str(<<"A","c","t","i","v","e">>)>>

UserRow(slug, email, role, active) ==
    <<Str(slug), Str(<<"n">>), Str(email), Str(role), Str(active)>>

\* names glob gives the user workbooks
UserFileName(k) == <<"u", <<"1","2","3","4","5","6","7","8","9">>[k]>>

\* all sequences of at most n different rows
RowSequences(rows, n) ==
    UNION {{rs \in [1..m -> rows] : \A i, j \in 1..m : i # j => rs[i] # rs[j]} :
              m \in 0..n}

\* the ways to cut n rows into m files that each hold a row
Cuts(m, n) ==
    {c \in [0..m -> 0..n] :
        /\ c[0] = 0
        /\ c[m] = n
        /\ \A k \in 1..m : c[k - 1] < c[k]}

\* the directory whose workbooks hold the rows rs cut at c
UserDirectory(rs, c) ==
    [k \in 1..(Cardinality(DOMAIN c) - 1) |->
        [file |-> UserFileName(k),
         sheetnames |-> << <<"U","s","e","r","s">> >>,
         rows |-> <<UserHeader>> \o SubSeq(rs, c[k - 1] + 1, c[k])]]

\* the user directories of at most maxFiles workbooks holding at most maxRows rows
UserDirectories(rows, maxRows, maxFiles) ==
    UNION {UNION {{UserDirectory(rs, c) : c \in Cuts(m, Len(rs))} : m \in 0..maxFiles} :
              rs \in RowSequences(rows, maxRows)}

\* a permission document of the remote system without permissions
NoPermissions ==
    [x \in {role_permission_lookup[k].path[2] :
                k \in {n \in 1..Len(role_permission_lookup) :
                          role_permission_lookup[n].path[1] = "organization"}}
           \cup {"workspaces", "private", "user"} |->
        IF x = "workspaces" \/ x = "user" THEN <<>> ELSE FALSE]

\* a remote system that holds nothing but the Admin role
EmptyRemote ==
    << <<>>,
       <<[id |-> 1, name |-> <<"A","d","m","i","n">>, permissions |-> NoPermissions]>>,
       <<>> >>

\* a workspace entry of the remote system that grants read access
ReadEntry(id) ==
    [x \in {"id"} \cup {role_permission_lookup[k].path[2] :
                k \in {n \in 1..Len(role_permission_lookup) :
                          role_permission_lookup[n].path[1] = "primary_workspaces"}} |->
        IF x = "id" THEN id ELSE x = "read_patients"]

\* a remote system that holds workspace a under an old name, workspace b,
\* role [A] S without workspace permissions, role [A+B] S as template S
\* makes it (private, owned by a user, its entries not in order of
\* identifier), user e1 under an old name, and a workspace, a role and a
\* user the data directory does not know
UsedRemote ==
    << <<[id |-> 1, slug |-> <<"z">>, name |-> <<"Z">>],
         [id |-> 3, slug |-> <<"a">>, name |-> <<"o","l","d">>],
         [id |-> 2, slug |-> <<"b">>, name |-> <<"[","B","]"," ","N">>]>>,
       <<[id |-> 1, name |-> <<"A","d","m","i","n">>, permissions |-> NoPermissions],
         [id |-> 2, name |-> <<"[","A","]"," ","S">>, permissions |-> NoPermissions],
         [id |-> 3, name |-> <<"Q">>, permissions |-> NoPermissions],
         [id |-> 4, name |-> <<"[","A","+","B","]"," ","S">>,
          permissions |-> [NoPermissions EXCEPT !["workspaces"] = <<ReadEntry(3), ReadEntry(2)>>,
                                                !["private"] = TRUE,
                                                !["user"] = <<2>>]]>>,
       <<[id |-> 1, email |-> <<"e","1">>, name |-> <<"o","l","d">>,
          active |-> "True", role_id |-> 3],
         [id |-> 2, email |-> <<"x">>, name |-> <<"X">>,
          active |-> "True", role_id |-> 1]>> >>

\* a remote system that holds both workspaces of the smaller workbook
SettledRemote ==
    << <<[id |-> 2, slug |-> <<"b">>, name |-> <<"[","B","]"," ","N">>],
         [id |-> 1, slug |-> <<"a">>, name |-> <<"o","l","d">>]>>,
       <<[id |-> 1, name |-> <<"A","d","m","i","n">>, permissions |-> NoPermissions]>>,
       <<>> >>

\* bounds of the user directories
MaxSyncRows == 3

MaxSyncFiles == 1

MaxUserRows == 4

MaxUserFiles == 2

SyncRows ==
    {UserRow(<<"a">>, <<"e","1">>, <<"S">>, <<"y","e","s">>),
     UserRow(<<"b">>, <<"e","1">>, <<"S">>, <<"y","e","s">>),
     UserRow(<<"a">>, <<"e","2">>, <<"T">>, <<"n","o">>),
     UserRow(<<"d">>, <<"e","2">>, <<"S">>, <<"T","r","u","e">>)}

LoaderRows ==
    {UserRow(<<"a">>, <<"e","1">>, <<"S">>, <<"y","e","s">>),
     UserRow(<<"b">>, <<"e","1">>, <<"S">>, <<"y","e","s">>),
     UserRow(<<"b">>, <<"e","1">>, <<"T">>, <<"y","e","s">>),
     UserRow(<<"a">>, <<"e","2">>, <<"S">>, <<"y","e","s">>),
     UserRow(<<"b">>, <<"e","2">>, <<"S">>, <<"y","e","s">>),
     UserRow(<<"a">>, <<"e","1">>, <<"S">>, <<"n","o">>)}

\* the script run on the data directories and remote systems above
Init ==
    Start([workspaces : WorkspaceWorkbooks,
           roles : RoleWorkbooks,
           users : UserDirectories(SyncRows, MaxSyncRows, MaxSyncFiles)],
          {EmptyRemote, UsedRemote})

Spec == Init /\ [][Next]_vars

\* the script run on every user directory of the bounds: directories whose
\* rows all name a desired workspace, and directories with a row that
\* names the workspace d, which is not declared
InitLoader ==
    \/ Start([workspaces : {WorkspaceSheet(<< <<"a">>, <<" ","B">> >>)},
              roles : {<<SheetS, SheetT>>},
              users : UserDirectories(LoaderRows, MaxUserRows, MaxUserFiles)],
             {SettledRemote})
    \/ Start([workspaces : {WorkspaceSheet(<< <<"a">>, <<" ","B">> >>)},
              roles : {<<SheetS, SheetT>>},
              users : UserDirectories(SyncRows, MaxSyncRows, MaxSyncFiles)],
             {SettledRemote})

SpecLoader == InitLoader /\ [][Next]_vars

----------------------------------------------------------------------------
(* Data directories that exercise the parsers *)

\* bounds of the parsed sheets
MaxHeaderCells == 3

MaxWorkspaceRows == 3

MaxTemplateRows == 3

MaxParseRows == 2

\* the roles workbook and the users directory of a small complete directory
PlainRoles == <<SheetS, SheetT>>

PlainUsers ==
    <<[file |-> UserFileName(1),
       sheetnames |-> << <<"U","s","e","r","s">> >>,
       rows |-> <<UserHeader, UserRow(<<"a">>, <<"e","1">>, <<"S">>, <<"y","e","s">>)>>]>>

\* cells of a header row: texts that name a column in another case or
\* with blanks around, a text that names none, a number and an empty cell
HeaderCells ==
    {Str(<<"S","l","u","g">>), Str(<<" ","s","l","u","g"," ">>),
     Str(<<"N","A","M","E">>), Str(<<"x">>), Num(<<"1">>), NoneCell}

\* a workspaces workbook with the header row and one data row that holds
\* in each column the letter of the column
HeaderWorkbook(header) ==
    [sheetnames |-> << <<"W","o","r","k","s","p","a","c","e","s">> >>,
     rows |-> <<header, [i \in 1..Len(header) |-> Str(<<LowerCase[i]>>)]>>]

HeaderWorkbooks ==
    UNION {{HeaderWorkbook(header) : header \in [1..n -> HeaderCells]} :
              n \in 1..MaxHeaderCells}

\* data rows of a workspaces workbook: slugs in several spellings, a slug
\* that repeats under another name, a blank slug and an empty slug cell
WorkspaceRows ==
    {<<Str(<<"a">>), Str(<<"N">>)>>,
     <<Str(<<" ","ß">>), Str(<<"N">>)>>,
     <<Str(<<"A","\r">>), Str(<<"\f","M"," ">>)>>,
     <<Str(<<" ">>), Str(<<"N">>)>>,
     <<NoneCell, Str(<<"N">>)>>}

RowWorkbooks ==
    {[sheetnames |-> << <<"W","o","r","k","s","p","a","c","e","s">> >>,
      rows |-> << <<Str(<<"S","l","u","g">>), Str(<<"N","a","m","e">>)>> >> \o rs] :
        rs \in RowSequences(WorkspaceRows, MaxWorkspaceRows)}

\* rows of a role template sheet: category headers and permission rows
TemplateRows ==
    {<<Str(<<"P","r","i","m","a","r","y"," ","W","o","r","k","s","p","a","c","e","s">>), NoneCell>>,
     <<Str(<<"O","t","h","e","r"," ","W","o","r","k","s","p","a","c","e","s">>), NoneCell>>,
     <<Str(<<"O","r","g","a","n","i","z","a","t","i","o","n"," ","M","a","n","a","g","e","m","e","n","t"," ","P","e","r","m","i","s","s","i","o","n","s">>), NoneCell>>,
     <<Str(<<"R","e","a","d"," ","P","a","t","i","e","n","t","s">>), Str(<<"y","e","s">>)>>,
     <<Str(<<"R","e","a","d"," ","P","a","t","i","e","n","t","s">>), Str(<<"N","o">>)>>,
     <<Str(<<"C","o","n","t","o","u","r"," ","P","a","t","i","e","n","t","s">>), Str(<<"Y","E","S">>)>>,
     <<Str(<<"M","a","n","a","g","e"," ","C","u","s","t","o","m"," ","M","e","t","r","i","c","s">>), Str(<<"y","e","s">>)>>}

\* roles workbooks with one sheet S made of the rows above
TemplateWorkbooks ==
    {<<[sheetname |-> <<"S">>,
        rows |-> << <<Str(<<"N","a","m","e">>), Str(<<"S">>)>> >> \o rs]>> :
        rs \in RowSequences(TemplateRows, MaxTemplateRows)}

\* user rows: complete rows with several kinds of active cell, a row that
\* lacks its name and its role, an empty row, and a row whose role names no
\* role template
ParseRows ==
    {UserRow(<<"a">>, <<"e","1">>, <<"S">>, <<"Y","e","s">>),
     UserRow(<<"b">>, <<"e","2">>, <<"S">>, <<"x">>),
     <<Str(<<"a">>), Str(<<"n">>), Str(<<"e","1">>), Str(<<"S">>), Num(<<"1">>)>>,
     <<Str(<<"b">>), Str(<<"n">>), Str(<<"e","2">>), Str(<<"S">>), Bool(FALSE)>>,
     <<Str(<<"a">>), NoneCell, Str(<<"e","1">>), NoneCell, Str(<<"y","e","s">>)>>,
     <<NoneCell, NoneCell, NoneCell, NoneCell, NoneCell>>,
     UserRow(<<"b">>, <<"e","2">>, <<"U">>, <<"T","R","U","E">>)}

MaxMergeRows == 3

MaxMergeFiles == 2

\* user rows that repeat an email with another name and another active
\* flag, for another workspace
MergeRows ==
    {<<Str(<<"a">>), Str(<<"n">>), Str(<<"é","1">>), Str(<<"S">>), Str(<<"y","e","s">>)>>,
     <<Str(<<"b">>), Str(<<"m">>), Str(<<"É","1"," ">>), Str(<<"S">>), Str(<<"n","o">>)>>,
     <<Str(<<"a">>), Str(<<"m">>), Str(<<"e","2">>), Str(<<"S">>), Str(<<"n","o">>)>>,
     <<Str(<<"b">>), Str(<<"n">>), Str(<<"e","2">>), Str(<<"S">>), Str(<<"y","e","s">>)>>}

\* the script run on directories that vary one workbook at a time
InitParse ==
    \/ Start([workspaces : HeaderWorkbooks \cup RowWorkbooks,
              roles : {PlainRoles},
              users : {<<>>}],
             {SettledRemote})
    \/ Start([workspaces : {WorkspaceSheet(<< <<"a">>, <<" ","B">> >>)},
              roles : TemplateWorkbooks,
              users : {PlainUsers}],
             {SettledRemote})
    \/ Start([workspaces : {WorkspaceSheet(<< <<"a">>, <<" ","B">> >>)},
              roles : {PlainRoles},
              users : UserDirectories(ParseRows, MaxParseRows, 1)],
             {SettledRemote})
    \/ Start([workspaces : {WorkspaceSheet(<< <<"a">>, <<" ","B">> >>)},
              roles : {PlainRoles},
              users : UserDirectories(MergeRows, MaxMergeRows, MaxMergeFiles)],
             {SettledRemote})

SpecParse == InitParse /\ [][Next]_vars

----------------------------------------------------------------------------
(* Properties *)

\* the requests issued in the current run
Issued == SelectSeq(requests, LAMBDA request : request.run = run)

\* the requests of one kind issued in the current run
IssuedFor(kind) == SelectSeq(requests, LAMBDA request : request.run = run /\ request.kind = kind)

\* C1: a run that follows a complete run on the same data directory, with
\* no other change to the remote system, classifies no workspace, no role
\* and no user as Create or Update.
Idempotence ==
    run > 1 => /\ workspace_jobs = <<>>
               /\ role_jobs = <<>>
               /\ user_jobs = <<>>

\* the class a pass gave to a desired record
Classified(record, key, jobs) ==
    IF key \notin Range(jobs) THEN "Unchanged"
    ELSE IF record.item = <<>> THEN "Create" ELSE "Update"

\* the class of a desired record whose natural key is held by the remote
\* records `matches`
Expected(matches, Differs(_)) ==
    IF matches = {} THEN "Create"
    ELSE IF \E item \in matches : Differs(item) THEN "Update"
    ELSE "Unchanged"

\* two permission documents are equal: the same flags, and the same
\* workspace entries (a queried document is compared without its private
\* and user fields, its entries ordered by identifier)
SameDocument(document, other) ==
    LET Flags(d) == [x \in (DOMAIN d) \ {"private", "user", "workspaces"} |-> d[x]]
    IN  /\ Flags(document) = Flags(other)
        /\ Len(document["workspaces"]) = Len(other["workspaces"])
        /\ Range(document["workspaces"]) = Range(other["workspaces"])

\* the number of desired records of a class
Count(records, Class(_), class) ==
    Cardinality({k \in 1..Len(records) : Class(records[k]) = class})

WorkspaceClass(workspace) ==
    Expected({item \in Range(pk_workspaces) : item.slug = workspace.slug},
             LAMBDA item : item.name # workspace.name)

RoleClass(role) ==
    Expected({item \in Range(pk_roles) : item.name = role.name},
             LAMBDA item : ~SameDocument(item.permissions, role.data))

UserClass(user) ==
    Expected({item \in Range(pk_users) : item.email = user.email},
             LAMBDA item :
                 \/ item.name # user.name
                 \/ item.active # user.active
                 \/ \A role_item \in Range(pk_roles) :
                        role_item.name = user.role[1] => role_item.id # item.role_id)

\* C2: in each pass a desired record is classified Create exactly when no
\* remote record has its natural key, Update exactly when a remote record
\* has it and differs (workspace: name; role: permission document; user:
\* name, active flag or role identifier), and Unchanged otherwise; the
\* counts shown at the prompt are the numbers of Create and Update records.
Classification ==
    /\ pc = "confirm_workspaces" =>
          /\ \A k \in 1..Len(workspaces) :
                Classified(workspaces[k], workspaces[k].slug, workspace_jobs)
                    = WorkspaceClass(workspaces[k])
          /\ created = Count(workspaces, WorkspaceClass, "Create")
          /\ updated = Count(workspaces, WorkspaceClass, "Update")
    /\ pc = "confirm_roles" =>
          /\ \A k \in 1..Len(roles) :
                Classified(roles[k], roles[k].name, role_jobs) = RoleClass(roles[k])
          /\ created = Count(roles, RoleClass, "Create")
          /\ updated = Count(roles, RoleClass, "Update")
    /\ pc = "confirm_users" =>
          /\ \A k \in 1..Len(users) :
                Classified(users[k], users[k].email, user_jobs) = UserClass(users[k])
          /\ created = Count(users, UserClass, "Create")
          /\ updated = Count(users, UserClass, "Update")

\* C2 witness: the workspace pass found one record of each class
ClassificationWitness ==
    /\ pc = "confirm_workspaces"
    /\ \A class \in {"Create", "Update", "Unchanged"} :
          \E k \in 1..Len(workspaces) :
             /\ WorkspaceClass(workspaces[k]) = class
             /\ Classified(workspaces[k], workspaces[k].slug, workspace_jobs) = class

\* the place of a kind in the order of the passes
PassOf(kind) == CASE kind = "workspace" -> 1 [] kind = "role" -> 2 [] kind = "user" -> 3

\* C3: in every run the workspace writes precede the role writes, which
\* precede the user writes; every workspace identifier in a permission
\* document that is written belongs to a workspace that exists remotely at
\* that moment, and every role identifier of a user that is written belongs
\* to a role that exists remotely at that moment.
PassOrder ==
    [][requests' # requests =>
        LET request == requests'[Len(requests')]
        IN  /\ requests' = Append(requests, request)
            /\ request.run = run
            /\ \A k \in 1..Len(requests) :
                  requests[k].run = run => PassOf(requests[k].kind) <= PassOf(request.kind)
            /\ request.kind = "role" =>
                  \A item \in Range(pk_roles') :
                     item.id = request.id =>
                        /\ item.permissions["workspaces"] # <<>>
                        /\ \A entry \in Range(item.permissions["workspaces"]) :
                              entry["id"] \in Keys(pk_workspaces, "id")
            /\ request.kind = "user" =>
                  \A item \in Range(pk_users') :
                     item.id = request.id => item.role_id \in Keys(pk_roles, "id")]_vars

\* C3 witness: a run wrote a workspace it created, then a role holding
\* that workspace's identifier, then a user holding that role's identifier
PassOrderWitness ==
    \E w, r, u \in 1..Len(requests) :
       /\ w < r /\ r < u
       /\ requests[w].run = run /\ requests[r].run = run /\ requests[u].run = run
       /\ requests[w].kind = "workspace" /\ requests[w].op = "create"
       /\ requests[r].kind = "role" /\ requests[r].op = "create"
       /\ requests[u].kind = "user"
       /\ \E role_item \in Range(pk_roles) :
             /\ role_item.id = requests[r].id
             /\ \E entry \in Range(role_item.permissions["workspaces"]) :
                   entry["id"] = requests[w].id
             /\ \E user_item \in Range(pk_users) :
                   user_item.id = requests[u].id /\ user_item.role_id = role_item.id

\* the lines that answer a prompt with yes, and with no
Granted(line) == Lower(line) \in {<<>>, <<"y">>, <<"y","e">>, <<"y","e","s">>}
Declined(line) == Lower(line) \in {<<"n">>, <<"n","o">>}

\* C4 for one pass: jobs are its non-Unchanged records, answer the last
\* line typed at its prompt (none when it did not prompt), later the kinds
\* of the passes that follow it
Gate(kind, jobs, answer, later) ==
    /\ IssuedFor(kind) # <<>> => answer # <<>> /\ Granted(answer[1])
    /\ jobs = <<>> => answer = <<>> /\ IssuedFor(kind) = <<>>
    /\ answer # <<>> /\ Declined(answer[1]) =>
          /\ pc = "exit"
          /\ exit_status # 0
          /\ \A k \in {kind} \cup later : IssuedFor(k) = <<>>

\* C4: a pass issues no remote create or save unless its confirmation was
\* answered yes; a pass without Create or Update records neither prompts
\* nor writes; a declined confirmation ends the run with a non-zero exit
\* status and without a write in that pass or a later one.
Confirmation ==
    /\ Gate("workspace", workspace_jobs, answers.workspaces, {"role", "user"})
    /\ Gate("role", role_jobs, answers.roles, {"user"})
    /\ Gate("user", user_jobs, answers.users, {})

\* C4 witness: the workspace writes were granted and made, then the role
\* writes were declined
ConfirmationWitness ==
    /\ IssuedFor("workspace") # <<>>
    /\ answers.workspaces # <<>> /\ Granted(answers.workspaces[1])
    /\ role_jobs # <<>>
    /\ answers.roles # <<>> /\ Declined(answers.roles[1])
    /\ pc = "exit"

\* the identifiers of a list of remote records, in order
Ids(items) == [k \in 1..Len(items) |-> items[k].id]

\* the remote records that match no desired record
UnmatchedWorkspaces ==
    SelectSeq(pk_workspaces, LAMBDA item : item.slug \notin Keys(workspaces, "slug"))
UnmatchedRoles ==
    SelectSeq(pk_roles, LAMBDA item : item.name \notin Keys(roles, "name"))
UnmatchedUsers ==
    SelectSeq(pk_users, LAMBDA item : item.email \notin Keys(users, "email"))

\* a step leaves the remote records `items` as they are and addresses no
\* request of the kind to them
Untouched(kind, items, records) ==
    /\ \A k \in 1..Len(items) : items[k] \in Range(records)
    /\ requests' # requests =>
          LET request == requests'[Len(requests')]
          IN  request.kind = kind => request.id \notin Range(Ids(items))

\* C5: the query of each pass puts every remote record whose natural key
\* matches no desired record in the pass's unknown list, except a role
\* named Admin; no step of any run changes, removes or addresses a write
\* to such a record.
Unknown ==
    [][/\ pc = "query_workspaces" /\ pc' # pc =>
             Ids(unknown_workspaces') = Ids(UnmatchedWorkspaces)
       /\ pc = "query_roles" /\ pc' # pc =>
             Ids(unknown_roles') =
                Ids(SelectSeq(UnmatchedRoles,
                        LAMBDA item : item.name # <<"A","d","m","i","n">>))
       /\ pc = "query_users" /\ pc' # pc =>
             Ids(unknown_users') = Ids(UnmatchedUsers)
       /\ Untouched("workspace", UnmatchedWorkspaces, pk_workspaces')
       /\ Untouched("role", UnmatchedRoles, pk_roles')
       /\ Untouched("user", UnmatchedUsers, pk_users')]_vars

\* C5 witness: a complete run that wrote to the remote system and listed
\* an unknown workspace, an unknown role and an unknown user, next to an
\* Admin role it did not list
UnknownWitness ==
    /\ pc = "exit" /\ exit_status = 0
    /\ \A kind \in {"workspace", "role", "user"} : IssuedFor(kind) # <<>>
    /\ unknown_workspaces # <<>> /\ unknown_roles # <<>> /\ unknown_users # <<>>
    /\ \E item \in Range(pk_roles) :
          /\ item.name = <<"A","d","m","i","n">>
          /\ item.id \notin Range(Ids(unknown_roles))

\* the failures of role template and user row validation
ValidationErrors ==
    {"Invalid 'Name' specification", "Invalid permission category",
     "Invalid permission", "Permission outside of a category",
     "Invalid row contents", "Sheet name does not match role template name",
     "Role template already defined", "Role template name must be specified",
     "User references an unknown workspace",
     "User has multiple role assignments for workspace",
     "User has conflicting role assignments", "User is missing value"}

\* C6: in every run the desired workspaces, role templates and users are
\* all loaded and validated before the first remote create or save, so a
\* run that ends in a role template or user row validation failure has
\* written nothing to the remote system.
LoadedBeforeWrites ==
    /\ pc \in {"read_workspaces", "read_role_templates", "read_users"} => Issued = <<>>
    /\ pc = "exit" /\ failure.error \in ValidationErrors => Issued = <<>>

\* C7: after user rows from any number of user files were processed
\* without failure, every user of the user map has at least one workspace
\* assignment, all assignments of a user name the same role template, no
\* slug is assigned to a user twice, and every assigned slug is a desired
\* workspace.
UserMap ==
    failure = NoFailure =>
       \A k \in 1..Len(users) :
          LET assigned == users[k].workspaces
          IN  /\ Len(assigned) >= 1
              /\ \A i, j \in 1..Len(assigned) :
                    /\ assigned[i].role = assigned[j].role
                    /\ i # j => assigned[i].workspace # assigned[j].workspace
              /\ \A i \in 1..Len(assigned) :
                    assigned[i].workspace \in Keys(workspaces, "slug")

\* C7 witness: all user files were read, and a user holds two assignments
\* that come from two files
UserMapWitness ==
    /\ pc = "compile_roles"
    /\ Len(users) = 2
    /\ \E k \in 1..Len(users) :
          /\ Len(users[k].workspaces) = 2
          /\ users[k].workspaces[1].file # users[k].workspaces[2].file

\* the user row that the next step reads assigns a workspace to a user
\* who has the assignment `first` for that workspace, with another role
Reassigns(first) ==
    /\ pc = "read_users"
    /\ cursor[1] > 0
    /\ cursor[2] < Len(data.users[cursor[1]].rows) - 1
    /\ LET row == data.users[cursor[1]].rows[cursor[2] + 2]
       IN  \E user \in Range(users) :
              /\ user.email = Lower(Strip(row[3].v))
              /\ first \in Range(user.workspaces)
              /\ first.workspace = Lower(Strip(row[1].v))
              /\ first.role # Strip(row[4].v)

\* the assignments users hold
Assignments == UNION {Range(users[k].workspaces) : k \in 1..Len(users)}

\* C8 as claimed: a row that assigns an email to a workspace it already
\* has, with a different role, fails with the conflicting role error, which
\* cites the file of the first assignment.
ReassignedRoleConflicts ==
    [][\A first \in Assignments :
          Reassigns(first) =>
             /\ pc' = "exit"
             /\ failure'.error = "User has conflicting role assignments"
             /\ failure'.file = first.file]_vars

\* C8 as amended: a row that assigns an email to a workspace it already
\* has, with a different role, fails with the multiple role assignments
\* error for that workspace, which cites the file of the first assignment.
ReassignedRoleIsDuplicate ==
    [][\A first \in Assignments :
          Reassigns(first) =>
             /\ pc' = "exit"
             /\ exit_status' = 1
             /\ failure'.error = "User has multiple role assignments for workspace"
             /\ failure'.detail = first.workspace
             /\ failure'.file = first.file]_vars

\* C8 witness: loading failed on a row of the second file that gives
\* another role for a workspace assigned in the first file
ReassignedRoleWitness ==
    /\ pc = "exit"
    /\ failure.error = "User has multiple role assignments for workspace"
    /\ cursor[1] = 2
    /\ failure.file = data.users[1].file
    /\ LET row == data.users[cursor[1]].rows[cursor[2] + 1]
       IN  \E first \in Assignments :
              /\ first.workspace = Lower(Strip(row[1].v))
              /\ first.file = failure.file
              /\ first.role # Strip(row[4].v)

\* the workspaces assigned to a user, and the role template they name
Membership(user) ==
    [slugs |-> {user.workspaces[k].workspace : k \in 1..Len(user.workspaces)},
     template |-> {user.workspaces[k].role : k \in 1..Len(user.workspaces)}]

\* C9: two users with the same role template and the same set of workspace
\* slugs resolve to one compiled role, whatever the order in which their
\* rows declared the workspaces.
SharedRole ==
    \A k, m \in 1..Len(users) :
       /\ users[k].role # <<>>
       /\ users[m].role # <<>>
       /\ Membership(users[k]) = Membership(users[m])
       => users[k].role = users[m].role

\* the first user whose group made the role
Inducer(role) ==
    users[CHOOSE m \in 1..Len(users) :
             /\ users[m].role = <<role.name>>
             /\ \A n \in 1..(m - 1) : users[n].role # <<role.name>>]

\* the remote identifier of the workspace with the slug
RemoteId(slug) == (CHOOSE item \in Range(pk_workspaces) : item.slug = slug).id

\* a workspace entry: the identifier next to the flags
EntryOf(id, flags) ==
    [x \in {"id"} \cup DOMAIN flags |-> IF x = "id" THEN id ELSE flags[x]]

\* the workspace entries a role must hold
EntriesOf(role) ==
    LET primary == {Inducer(role).workspaces[k].workspace :
                       k \in 1..Len(Inducer(role).workspaces)}
        template == CHOOSE t \in Range(role_templates) :
                       t["name"] = Str(Inducer(role).workspaces[1].role)
        others == IF \E key \in DOMAIN template["other_workspaces"] :
                        template["other_workspaces"][key]
                  THEN Keys(workspaces, "slug") \ primary
                  ELSE {}
    IN  {EntryOf(RemoteId(slug), template["primary_workspaces"]) : slug \in primary}
        \cup {EntryOf(RemoteId(slug), template["other_workspaces"]) : slug \in others}

\* C10: the permission document of every compiled role holds exactly one
\* workspace entry per primary workspace of the inducing user, with the
\* template's primary_workspaces flags, and, if and only if an
\* other_workspaces flag of the template is true, exactly one entry per
\* other desired workspace, with the other_workspaces flags; no identifier
\* occurs twice and the entries ascend by remote identifier.
WorkspaceEntries ==
    \A k \in 1..Len(roles) :
       LET entries == roles[k].data["workspaces"]
       IN  /\ Range(entries) = EntriesOf(roles[k])
           /\ Len(entries) = Cardinality(EntriesOf(roles[k]))
           /\ \A i, j \in 1..Len(entries) :
                 i < j => entries[i]["id"] < entries[j]["id"]

\* C10 witness: a role with one primary workspace and two other
\* workspaces, whose primary entry does not come first
WorkspaceEntriesWitness ==
    \E k \in 1..Len(roles) :
       LET entries == roles[k].data["workspaces"]
       IN  /\ Len(entries) = 3
           /\ Len(Inducer(roles[k]).workspaces) = 1
           /\ entries[1]["id"] # RemoteId(Inducer(roles[k]).workspaces[1].workspace)
           /\ entries[1] # [entries[2] EXCEPT !["id"] = entries[1]["id"]]

\* the remote roles that carry the name and the permission document of a
\* desired role, whatever their private and user fields and the order of
\* their workspace entries
RemoteEquals(name) ==
    {item \in Range(pk_roles) :
        /\ item.name = name
        /\ \E k \in 1..Len(roles) :
              /\ roles[k].name = name
              /\ SameDocument(item.permissions, roles[k].data)}

\* C11: a remote role that has the name of a desired role and its
\* permission document, except for private and user fields of its own and
\* the order of its workspace entries, is classified Unchanged and is not
\* written.
StrippedEquality ==
    [][/\ pc = "confirm_roles" =>
             \A k \in 1..Len(roles) :
                RemoteEquals(roles[k].name) # {} => roles[k].name \notin Range(role_jobs)
       /\ requests' # requests =>
             LET request == requests'[Len(requests')]
             IN  request.kind = "role" => RemoteEquals(request.key) = {}]_vars

\* C11 witness: a run that wrote roles passed over a remote role that is
\* private, owned by a user and lists its workspace entries in another
\* order than the desired role of its name
StrippedEqualityWitness ==
    /\ pc = "query_users"
    /\ IssuedFor("role") # <<>>
    /\ \E k \in 1..Len(roles) :
          \E item \in RemoteEquals(roles[k].name) :
             /\ item.permissions["private"] = TRUE
             /\ item.permissions["user"] # <<>>
             /\ item.permissions["workspaces"] # roles[k].data["workspaces"]
             /\ roles[k].name \notin Range(role_jobs)

\* the uppercased slugs of the assignments from the k-th on, in the order
\* of the assignments, with a '+' before each but the first
RECURSIVE SlugList(_, _)
SlugList(assigned, k) ==
    IF k > Len(assigned) THEN <<>>
    ELSE (IF k = 1 THEN <<>> ELSE <<"+">>)
         \o Upper(assigned[k].workspace) \o SlugList(assigned, k + 1)

\* C12: the name of the role compiled for a user is '[', the user's slugs
\* uppercased and joined by '+' in the order in which the assignments were
\* read, '] ' and the role template name; workspaces b then a with
\* template S give '[B+A] S'.
RoleNaming ==
    \A k \in 1..Len(users) :
       users[k].role # <<>> =>
          LET assigned == users[k].workspaces
          IN  /\ users[k].role[1] =
                    <<"[">> \o SlugList(assigned, 1) \o <<"]", " ">> \o assigned[1].role
              /\ Has(roles, "name", users[k].role[1])
              /\ /\ [i \in 1..Len(assigned) |-> assigned[i].workspace] = << <<"b">>, <<"a">> >>
                 /\ assigned[1].role = <<"S">>
                 => users[k].role[1] = <<"[", "B", "+", "A", "]", " ", "S">>

\* C12 witness: a user whose rows gave workspace b, then workspace a, got
\* the role [B+A] S
RoleNamingWitness ==
    \E k \in 1..Len(users) :
       /\ Len(users[k].workspaces) = 2
       /\ users[k].workspaces[1].workspace = <<"b">>
       /\ users[k].workspaces[2].workspace = <<"a">>
       /\ users[k].role = << <<"[", "B", "+", "A", "]", " ", "S">> >>

\* the columns (counted from 0) of a header row whose trimmed, lowercased
\* text is the expected text
Columns(row, head) ==
    {i \in 0..(Len(row) - 1) :
        row[i + 1].t = "str" /\ Lower(Strip(row[i + 1].v)) = head}

\* resolve_headers on a header row does what C13 says
Resolves(row, options) ==
    LET resolved == resolve_headers(row, options)
        duplicate == \E k \in 1..Len(options) :
                        Cardinality(Columns(row, options[k].head)) > 1
        missing == \E k \in 1..Len(options) : Columns(row, options[k].head) = {}
    IN  /\ duplicate => resolved.failure.error = "Duplicate columns"
        /\ missing /\ ~duplicate => resolved.failure.error = "Missing column"
        /\ ~missing /\ ~duplicate =>
              /\ resolved.failure = NoFailure
              /\ Keys(resolved.headers, "key") = Keys(options, "key")
              /\ \A k \in 1..Len(options) :
                    Columns(row, options[k].head) =
                       {Get(resolved.headers, "key", options[k].key).index}

\* the options the workspaces workbook is resolved with
WorkspaceHeaderOptions ==
    <<[key |-> "slug", head |-> <<"s","l","u","g">>],
      [key |-> "name", head |-> <<"n","a","m","e">>]>>

\* C13: resolve_headers returns for each key the index of the one column
\* whose trimmed, lowercased text is the key's expected text; it fails
\* with a duplicate error when two columns match one key, and with a
\* missing error when a key matches no column.  The workspace loader ends
\* with that failure, and with no header failure otherwise.
HeaderResolution ==
    /\ Resolves(data.workspaces.rows[1], WorkspaceHeaderOptions)
    /\ \A f \in 1..Len(data.users) : Resolves(data.users[f].rows[1], UserHeaderOptions)
    /\ pc # "read_workspaces" =>
          LET failed == resolve_headers(data.workspaces.rows[1], WorkspaceHeaderOptions).failure
          IN  IF failed = NoFailure
              THEN failure.error \notin {"Duplicate columns", "Missing column"}
              ELSE pc = "exit" /\ exit_status = 1 /\ failure = failed

\* C13 witness: the slug column is the third one, after a column that
\* names nothing and the name column, and the slug was read from it
HeaderResolutionWitness ==
    /\ pc = "query_workspaces"
    /\ Columns(data.workspaces.rows[1], <<"s","l","u","g">>) = {2}
    /\ Columns(data.workspaces.rows[1], <<"n","a","m","e">>) = {1}
    /\ Keys(workspaces, "slug") = {<<"c">>}

\* the fields of a user row, in the order of the columns of the user header
UserFields == <<"workspace", "name", "email", "role", "active">>

\* the next step reads a user row: the row
NextRow == data.users[cursor[1]].rows[cursor[2] + 2]

ReadsRow ==
    /\ pc = "read_users"
    /\ cursor[1] > 0
    /\ cursor[2] < Len(data.users[cursor[1]].rows) - 1

\* C14: a user row with a value in some but not all of its five fields
\* makes loading fail with the incomplete row error that names the first
\* missing field of the row; a row without any value is skipped.
IncompleteRow ==
    [][ReadsRow =>
          LET absent == {i \in 1..5 : NextRow[i].t = "none"}
          IN  /\ absent = 1..5 =>
                    pc' = "read_users" /\ users' = users /\ failure' = NoFailure
              /\ absent # {} /\ absent # 1..5 =>
                    /\ pc' = "exit"
                    /\ exit_status' = 1
                    /\ failure'.error = "User is missing value"
                    /\ failure'.detail =
                          <<UserFields[CHOOSE i \in absent : \A j \in absent : i <= j]>>]_vars

\* C15: the active flag loaded from a complete user row is a boolean: true
\* when the cell holds the text 'true' or 'yes' in any letter case, false
\* for every other value, numbers included; the value never makes loading
\* fail.
ActiveFlag ==
    [][ReadsRow /\ (\A i \in 1..5 : NextRow[i].t # "none") =>
          /\ failure'.error \notin {"AttributeError", "TypeError", "KeyError"}
          /\ Len(users') > Len(users) =>
                users'[Len(users')].active =
                   IF /\ NextRow[5].t = "str"
                      /\ Lower(NextRow[5].v) \in {<<"t","r","u","e">>, <<"y","e","s">>}
                   THEN "True"
                   ELSE "False"]_vars

\* C16: after the workspace rows are loaded, every key of the desired
\* workspace set is a lowercase, trimmed, non-empty slug, held once, and
\* the record under the key carries that slug.
DesiredSlugs ==
    /\ \A k \in 1..Len(workspaces) :
          /\ workspaces[k].slug # <<>>
          /\ workspaces[k].slug = Lower(workspaces[k].slug)
          /\ workspaces[k].slug = Strip(workspaces[k].slug)
    /\ \A k, m \in 1..Len(workspaces) :
          workspaces[k].slug = workspaces[m].slug => k = m

\* the column of the workspaces sheet whose header names head
WorkspaceColumn(head) == CHOOSE i \in Columns(data.workspaces.rows[1], head) : TRUE

\* the data rows of the workspaces sheet that are loaded
LoadedRows ==
    {k \in 2..Len(data.workspaces.rows) :
        /\ Truthy(data.workspaces.rows[k][WorkspaceColumn(<<"s","l","u","g">>) + 1])
        /\ Truthy(data.workspaces.rows[k][WorkspaceColumn(<<"n","a","m","e">>) + 1])}

\* the normalized slug of data row k
RowSlug(k) ==
    Lower(Strip(data.workspaces.rows[k][WorkspaceColumn(<<"s","l","u","g">>) + 1].v))

\* the display name built from data row k
RowName(k) ==
    <<"[">> \o Upper(RowSlug(k)) \o <<"]", " ">>
        \o Strip(data.workspaces.rows[k][WorkspaceColumn(<<"n","a","m","e">>) + 1].v)

\* C18: loading workspace rows does not fail when a slug repeats: the
\* desired set holds exactly one record per distinct normalized slug, and
\* its display name is the one built from the last row with that slug.
RepeatedSlug ==
    [][/\ pc = "read_workspaces"
       /\ \E k \in 1..Len(data.workspaces.sheetnames) :
             data.workspaces.sheetnames[k] = <<"W","o","r","k","s","p","a","c","e","s">>
       /\ \A k \in 1..2 : Cardinality(Columns(data.workspaces.rows[1],
                                               WorkspaceHeaderOptions[k].head)) = 1
       /\ \A k \in LoadedRows : \A i \in 1..Len(data.workspaces.rows[k]) :
             data.workspaces.rows[k][i].t \in {"str", "none"}
       => /\ pc' = "query_workspaces"
          /\ failure' = NoFailure
          /\ Keys(workspaces', "slug") = {RowSlug(k) : k \in LoadedRows}
          /\ Len(workspaces') = Cardinality({RowSlug(k) : k \in LoadedRows})
          /\ \A i \in 1..Len(workspaces') :
                \E k \in LoadedRows :
                   /\ RowSlug(k) = workspaces'[i].slug
                   /\ \A m \in LoadedRows : RowSlug(m) = RowSlug(k) => m <= k
                   /\ workspaces'[i].name = RowName(k)]_vars

\* C18 witness: two loaded rows carry the slug a, the later one with the
\* name M, and the one desired record for a has the name [A] M
RepeatedSlugWitness ==
    /\ pc = "query_workspaces"
    /\ Len(data.workspaces.rows) = 3
    /\ data.workspaces.rows[2] = <<Str(<<"a">>), Str(<<"N">>)>>
    /\ data.workspaces.rows[3] = <<Str(<<"A","\r">>), Str(<<"\f","M"," ">>)>>
    /\ workspaces = <<[slug |-> <<"a">>, name |-> <<"[","A","]"," ","M">>, item |-> <<>>]>>

\* a row of a role template sheet that sets the category
IsCategoryRow(row) ==
    row[1] # Str(<<"N","a","m","e">>) /\ Truthy(row[1]) /\ row[2].t = "none"

\* a row of a role template sheet that gives a permission a value
IsPermissionRow(row) ==
    row[1] # Str(<<"N","a","m","e">>) /\ Truthy(row[1]) /\ Truthy(row[2])

\* the lookup entries row k resolves to: the ones with its label in the
\* category of the nearest category row before it
ResolvedBy(rows, k) ==
    LET before == {j \in 1..(k - 1) : IsCategoryRow(rows[j])}
    IN  IF before = {} THEN {}
        ELSE LET j == CHOOSE j \in before : \A m \in before : m <= j
             IN  {e \in 1..Len(role_permission_lookup) :
                     /\ role_permission_lookup[e].category = Strip(rows[j][1].v)
                     /\ role_permission_lookup[e].label = rows[k][1].v}

\* every pair of a permission row and a lookup entry it resolves to
Resolutions(rows) ==
    UNION {{<<k, e>> : e \in ResolvedBy(rows, k)} :
              k \in {j \in 1..Len(rows) : IsPermissionRow(rows[j])}}

\* C17: after a role template sheet is parsed without failure, every known
\* permission path is true exactly when the last permission row resolving
\* to it carries the value yes (in any letter case), and false otherwise,
\* so a path no row mentions is false; a permission row before any
\* category row, or whose label is not one of the active category, makes
\* loading fail.
TemplatePermissions ==
    [][pc = "read_role_templates" /\ cursor[1] <= Len(data.roles) =>
          LET rows == data.roles[cursor[1]].rows
              resolved == Resolutions(rows)
          IN  /\ (\E k \in 1..Len(rows) :
                     /\ IsPermissionRow(rows[k])
                     /\ \A e \in 1..Len(role_permission_lookup) : <<k, e>> \notin resolved)
                 => pc' = "exit" /\ exit_status' = 1 /\ failure' # NoFailure
              /\ pc' = "read_role_templates" =>
                    /\ Len(role_templates') = Len(role_templates) + 1
                    /\ \A e \in 1..Len(role_permission_lookup) :
                          LET path == role_permission_lookup[e].path
                              mentions == {k \in 1..Len(rows) : <<k, e>> \in resolved}
                              last == CHOOSE k \in mentions : \A m \in mentions : m <= k
                          IN  role_templates'[Len(role_templates')][path[1]][path[2]]
                                 = /\ mentions # {}
                                   /\ Lower(rows[last][2].v) = <<"y","e","s">>]_vars

\* C17 witness: a template read from a sheet that names the primary
\* category and gives Read Patients the value No and then the value yes:
\* the path is true, and the paths no row resolves to are false
TemplatePermissionsWitness ==
    /\ pc = "read_users"
    /\ Len(role_templates) = 1
    /\ \E rows \in {data.roles[1].rows} :
          /\ Len(rows) = 4
          /\ IsCategoryRow(rows[2])
          /\ Strip(rows[2][1].v) = <<"P","r","i","m","a","r","y"," ","W","o","r","k","s","p","a","c","e","s">>
          /\ rows[3] = <<Str(<<"R","e","a","d"," ","P","a","t","i","e","n","t","s">>), Str(<<"N","o">>)>>
          /\ rows[4] = <<Str(<<"R","e","a","d"," ","P","a","t","i","e","n","t","s">>), Str(<<"y","e","s">>)>>
    /\ role_templates[1]["primary_workspaces"]["read_patients"]
    /\ ~role_templates[1]["other_workspaces"]["read_patients"]
    /\ ~role_templates[1]["primary_workspaces"]["contour_patients"]

\* a loaded user has an assignment whose role names no role template
UndefinedRole ==
    \E u \in 1..Len(users) : \E k \in 1..Len(users[u].workspaces) :
        ~Has(role_templates, "name", Str(users[u].workspaces[k].role))

\* C19: every inconsistency in the declarations halts the run through the
\* validation failure path: a run that ends with a non-zero status ends
\* with a failure message and not with an uncaught exception.  A run with
\* a user row whose role names no role template ends that way, and has
\* written no role and no user.
ValidationHalt ==
    /\ pc = "exit" /\ exit_status # 0 =>
          failure.error \notin {"KeyError", "AttributeError", "TypeError"}
    /\ pc = "exit" /\ UndefinedRole =>
          /\ exit_status = 1
          /\ failure.error \notin {"", "KeyError", "AttributeError", "TypeError"}
          /\ IssuedFor("role") = <<>>
          /\ IssuedFor("user") = <<>>

\* the desired records, their natural key, the jobs and the position of
\* the writes of a pass
Pass(kind) ==
    CASE kind = "workspace" ->
            [records |-> workspaces, f |-> "slug", jobs |-> workspace_jobs,
             at |-> "apply_workspaces"]
      [] kind = "role" ->
            [records |-> roles, f |-> "name", jobs |-> role_jobs, at |-> "apply_roles"]
      [] kind = "user" ->
            [records |-> users, f |-> "email", jobs |-> user_jobs, at |-> "apply_users"]

\* the class of a desired record by the remote records
ExpectedClass(kind, record) ==
    CASE kind = "workspace" -> WorkspaceClass(record)
      [] kind = "role" -> RoleClass(record)
      [] kind = "user" -> UserClass(record)

\* the positions of the script in the order it goes through them
Positions ==
    <<"read_workspaces", "query_workspaces", "classify_workspaces",
      "confirm_workspaces", "apply_workspaces", "read_role_templates", "read_users",
      "compile_roles", "query_roles", "classify_roles", "confirm_roles",
      "apply_roles", "query_users", "classify_users", "confirm_users",
      "apply_users", "report">>

Place(position) == CHOOSE k \in 1..Len(Positions) : Positions[k] = position

\* the keys written so far in a pass are the first jobs of the pass, each
\* once, and all of them once the pass is over
WrittenSoFar(kind) ==
    LET jobs == Pass(kind).jobs
        issued == IssuedFor(kind)
        keys == [k \in 1..Len(issued) |-> issued[k].key]
    IN  /\ \A i, j \in 1..Len(jobs) : jobs[i] = jobs[j] => i = j
        /\ Len(keys) <= Len(jobs)
        /\ keys = SubSeq(jobs, 1, Len(keys))
        /\ pc = Pass(kind).at => Len(keys) = cursor[1] - 1
        /\ pc # "exit" /\ Place(pc) > Place(Pass(kind).at) => keys = jobs
        /\ pc # "exit" /\ Place(pc) < Place(Pass(kind).at) => keys = <<>>
        /\ pc = "exit" /\ exit_status = 0 => keys = jobs

\* C20: in each pass the remote writes are exactly the records that are
\* not Unchanged: an Unchanged record gets no create and no save, a Create
\* record gets one create and no save, an Update record gets one save and
\* no create.
Writes ==
    [][/\ requests' # requests =>
             \E kind \in {"workspace", "role", "user"} :
                /\ pc = Pass(kind).at
                /\ LET key == Pass(kind).jobs[cursor[1]]
                       record == Get(Pass(kind).records, Pass(kind).f, key)
                       class == Classified(record, key, Pass(kind).jobs)
                   IN  /\ class = ExpectedClass(kind, record)
                       /\ class # "Unchanged"
                       /\ Len(requests') = Len(requests) + 1
                       /\ SubSeq(requests', 1, Len(requests)) = requests
                       /\ requests'[Len(requests')].run = run
                       /\ requests'[Len(requests')].kind = kind
                       /\ requests'[Len(requests')].key = key
                       /\ requests'[Len(requests')].op =
                             IF class = "Create" THEN "create" ELSE "save"
       /\ \A kind \in {"workspace", "role", "user"} : WrittenSoFar(kind)']_vars

\* C20 witness: a workspace pass is over that found a record of each
\* class, and wrote one create and one save
WritesWitness ==
    /\ pc = "read_role_templates"
    /\ \E k \in 1..Len(workspaces) : workspaces[k].slug \notin Range(workspace_jobs)
    /\ {IssuedFor("workspace")[k].op : k \in 1..Len(IssuedFor("workspace"))}
          = {"create", "save"}
    /\ Len(IssuedFor("workspace")) = 2

\* C21: once the workspace pass is over and the run goes on, every desired
\* workspace has a remote identifier, that of a remote workspace with its
\* slug; so role compilation never fails with Workspace not found, and
\* when the user pass classifies the users the role of every user has a
\* remote identifier, that of a remote role with its name.
Resolved ==
    /\ pc # "exit" /\ Place(pc) > Place("apply_workspaces") =>
          \A k \in 1..Len(workspaces) :
             /\ workspaces[k].item # <<>>
             /\ \E item \in Range(pk_workspaces) :
                   /\ item.id = workspaces[k].item[1].id
                   /\ item.slug = workspaces[k].slug
    /\ failure.error # "Workspace not found"
    /\ pc # "exit" /\ Place(pc) >= Place("classify_users") =>
          \A u \in 1..Len(users) :
             /\ users[u].role # <<>>
             /\ Has(roles, "name", users[u].role[1])
             /\ Get(roles, "name", users[u].role[1]).item # <<>>
             /\ \E item \in Range(pk_roles) :
                   /\ item.id = Get(roles, "name", users[u].role[1]).item[1].id
                   /\ item.name = users[u].role[1]

\* C21 witness: the user pass is about to classify a user whose role was
\* created in this run for a workspace created in this run
ResolvedWitness ==
    /\ pc = "classify_users"
    /\ \E u \in 1..Len(users) :
          /\ \E request \in Range(IssuedFor("role")) :
                request.op = "create" /\ request.key = users[u].role[1]
          /\ \E request \in Range(IssuedFor("workspace")) :
                /\ request.op = "create"
                /\ request.key = users[u].workspaces[1].workspace

\* the places <<file, row>> of the user rows that carry an email
RowsOf(email) ==
    {place \in UNION {{<<f, r>> : r \in 2..Len(data.users[f].rows)} :
                         f \in 1..Len(data.users)} :
        LET cell == data.users[place[1]].rows[place[2]][3]
        IN  cell.t = "str" /\ Lower(Strip(cell.v)) = email}

\* the first row read that carries an email
FirstRowOf(email) ==
    LET place == CHOOSE p \in RowsOf(email) :
                    \A q \in RowsOf(email) :
                       p[1] < q[1] \/ (p[1] = q[1] /\ p[2] <= q[2])
    IN  data.users[place[1]].rows[place[2]]

\* every loaded user has the name and the active flag of the first row read
\* that carries the email of the user
FirstRowKept ==
    \A u \in 1..Len(users) :
       /\ RowsOf(users[u].email) # {}
       /\ users[u].name = Strip(FirstRowOf(users[u].email)[2].v)
       /\ users[u].active = parse_bool(FirstRowOf(users[u].email)[5])

\* C22: when several rows, in one file or across files, carry the same
\* email, the merged user keeps the name and the active flag of the first
\* row read for that email; a later row with another name or active flag
\* changes neither and raises no error, it only adds a workspace
\* assignment.
MergedUser ==
    /\ []FirstRowKept
    /\ [][ReadsRow /\ (\A i \in 1..5 : NextRow[i].t = "str")
          /\ Has(users, "email", Lower(Strip(NextRow[3].v))) =>
          LET k == IndexOf(users, "email", Lower(Strip(NextRow[3].v)))
              slug == Lower(Strip(NextRow[1].v))
              role == Strip(NextRow[4].v)
              added == [role |-> role, workspace |-> slug,
                        file |-> data.users[cursor[1]].file]
          IN  /\ Len(users') = Len(users)
              /\ \A j \in 1..Len(users) : j # k => users'[j] = users[j]
              /\ users'[k].name = users[k].name
              /\ users'[k].active = users[k].active
              /\ failure'.error \in
                    {"", "User references an unknown workspace",
                     "User has multiple role assignments for workspace",
                     "User has conflicting role assignments"}
              /\ (/\ Has(workspaces, "slug", slug)
                  /\ \A m \in 1..Len(users[k].workspaces) :
                        /\ users[k].workspaces[m].workspace # slug
                        /\ users[k].workspaces[m].role = role)
                 => /\ pc' = "read_users"
                    /\ failure' = NoFailure
                    /\ users'[k] = [users[k] EXCEPT !.workspaces = Append(@, added)]]_vars

\* C22 witness: the user é1 was read from a row with the name n and the
\* flag yes, then from a row with the name m and the flag no: the user
\* has the name n, is active and has two workspace assignments
MergedUserWitness ==
    /\ Len(users) = 1
    /\ users[1].email = <<"é","1">>
    /\ users[1].name = <<"n">>
    /\ users[1].active = "True"
    /\ Len(users[1].workspaces) = 2
    /\ FirstRowOf(<<"é","1">>)[2] = Str(<<"n">>)
    /\ \E place \in RowsOf(<<"é","1">>) :
          /\ data.users[place[1]].rows[place[2]][2] = Str(<<"m">>)
          /\ data.users[place[1]].rows[place[2]][5] = Str(<<"n","o">>)
====
